---- MODULE Spec2Model ----
(***************************************************************************)
(* InsightVault-Lite: the heuristic natural-language routing engine of the *)
(* chat route (src/src/app/api/chat/route.ts) and the tool executors of    *)
(* the tool-calling route (src/unnamed/part_004).                          *)
(*                                                                         *)
(* Text is modelled by TLA+ strings.  A question is the sequence of its    *)
(* lower-case words (the text is the words joined by single blanks); a     *)
(* row is the sequence of its <<key, value>> pairs in insertion order.     *)
(* Numbers are integers: a value parses when it starts with digits.        *)
(***************************************************************************)
EXTENDS Integers, Sequences, FiniteSets, TLC

VARIABLES
    pc,         \* position of the POST handler
    message,    \* the question: sequence of words
    history,    \* conversation history: sequence of [role, content]
    store,      \* the rows the row store holds for the file
    records,    \* rows loaded by the handler (empty until loaded)
    schema,     \* schema built by the handler
    ran,        \* the detectors the handler has run
    intents,    \* the result of every detector of the chain
    response,   \* the response of the request
    other,      \* the request that waits while this one runs, if there is one
    stream      \* the event stream of a streamed response, if there is one

vars == <<pc, message, history, store, records, schema, ran, intents, response, other,
          stream>>

NULL == "<null>"

\* ------------------------------------------------------------------------
\* Strings
\* ------------------------------------------------------------------------

Range(s) == {s[i] : i \in 1..Len(s)}

Min2(a, b) == IF a < b THEN a ELSE b

CharAt(s, i) == SubSeq(s, i, i)

\* String.prototype.includes
Includes(s, t) ==
    \E i \in 1..(Len(s) - Len(t) + 1) : SubSeq(s, i, i + Len(t) - 1) = t

StartsWith(s, t) == Len(t) <= Len(s) /\ SubSeq(s, 1, Len(t)) = t

EndsWith(s, t) == Len(t) <= Len(s) /\ SubSeq(s, Len(s) - Len(t) + 1, Len(s)) = t

Digits == {"0", "1", "2", "3", "4", "5", "6", "7", "8", "9"}

Letters == {"a", "b", "c", "d", "e", "f", "g", "h", "i", "j", "k", "l", "m",
            "n", "o", "p", "q", "r", "s", "t", "u", "v", "w", "x", "y", "z"}

UpperAlphabet == "ABCDEFGHIJKLMNOPQRSTUVWXYZ"

LowerAlphabet == "abcdefghijklmnopqrstuvwxyz"

LowerChar(c) ==
    IF \E i \in 1..26 : CharAt(UpperAlphabet, i) = c
    THEN CharAt(LowerAlphabet, CHOOSE i \in 1..26 : CharAt(UpperAlphabet, i) = c)
    ELSE c

\* String.prototype.toLowerCase
RECURSIVE ToLowerCase(_)
ToLowerCase(s) ==
    IF s = "" THEN ""
    ELSE LowerChar(CharAt(s, 1)) \o ToLowerCase(SubSeq(s, 2, Len(s)))

IsSpace(c) == c = " "

\* String.prototype.trim
RECURSIVE Trim(_)
Trim(s) ==
    IF s = "" THEN ""
    ELSE IF IsSpace(CharAt(s, 1)) THEN Trim(SubSeq(s, 2, Len(s)))
    ELSE IF IsSpace(CharAt(s, Len(s))) THEN Trim(SubSeq(s, 1, Len(s) - 1))
    ELSE s

\* s.replace(/[_\s]+/g, r): every run of underscores and blanks becomes r
RECURSIVE ReplaceSep(_, _)
ReplaceSep(s, r) ==
    IF s = "" THEN ""
    ELSE IF CharAt(s, 1) \in {"_", " "}
         THEN IF Len(s) >= 2 /\ CharAt(s, 2) \in {"_", " "}
              THEN ReplaceSep(SubSeq(s, 2, Len(s)), r)
              ELSE r \o ReplaceSep(SubSeq(s, 2, Len(s)), r)
         ELSE CharAt(s, 1) \o ReplaceSep(SubSeq(s, 2, Len(s)), r)

\* Number of leading digits of s
RECURSIVE DigitPrefix(_)
DigitPrefix(s) ==
    IF s = "" \/ CharAt(s, 1) \notin Digits THEN 0
    ELSE 1 + DigitPrefix(SubSeq(s, 2, Len(s)))

DigitVal(c) ==
    CASE c = "0" -> 0 [] c = "1" -> 1 [] c = "2" -> 2 [] c = "3" -> 3
      [] c = "4" -> 4 [] c = "5" -> 5 [] c = "6" -> 6 [] c = "7" -> 7
      [] c = "8" -> 8 [] OTHER -> 9

RECURSIVE DigitsVal(_)
DigitsVal(s) ==
    IF s = "" THEN 0
    ELSE 10 * DigitsVal(SubSeq(s, 1, Len(s) - 1)) + DigitVal(CharAt(s, Len(s)))

\* isNaN(parseFloat(v)): parseFloat skips leading blanks, takes an optional
\* sign and the longest run of digits, and ignores what follows
Unsigned(s) == IF s # "" /\ CharAt(s, 1) \in {"-", "+"} THEN SubSeq(s, 2, Len(s)) ELSE s

ParseFloatIsNaN(v) == DigitPrefix(Unsigned(Trim(v))) = 0

\* The value of the leading digits of u
Magnitude(u) == DigitsVal(SubSeq(u, 1, DigitPrefix(u)))

Sign(t) == IF t # "" /\ CharAt(t, 1) = "-" THEN 0 - 1 ELSE 1

SignedValue(t) == Sign(t) * Magnitude(Unsigned(t))

\* parseFloat(v), for a v with ~ParseFloatIsNaN(v)
ParseFloat(v) == SignedValue(Trim(v))

AllDigits(u) == u # "" /\ DigitPrefix(u) = Len(u)

WholeNumber(t) == t = "" \/ AllDigits(Unsigned(t))

\* isFinite(+v) / !isNaN(Number(v)): the whole of v must be a number, and
\* the empty (or blank) string converts to 0
NumberIsFinite(v) == WholeNumber(Trim(v))

BlankOrValue(t) == IF t = "" THEN 0 ELSE SignedValue(t)

\* Number(v), for a v with NumberIsFinite(v)
NumberOf(v) == BlankOrValue(Trim(v))

\* Object keys that are canonical array indices come first, ascending
IsIndexKey(k) == AllDigits(k) /\ (Len(k) = 1 \/ CharAt(k, 1) # "0")

\* Array.prototype.slice(0, n)
Take(s, n) == SubSeq(s, 1, Min2(Len(s), n))

\* Array.prototype.filter, for a set of kept elements
FilterSeq(s, keep) == [k \in 1..Cardinality({i \in 1..Len(s) : s[i] \in keep}) |->
    s[CHOOSE i \in 1..Len(s) :
          s[i] \in keep /\ Cardinality({j \in 1..(i - 1) : s[j] \in keep}) = k - 1]] \o <<>>

\* The first element of s in the set keep, NULL if none (Array.prototype.find)
RECURSIVE FindFirst(_, _)
FindFirst(s, keep) ==
    IF s = <<>> THEN NULL
    ELSE IF Head(s) \in keep THEN Head(s)
    ELSE FindFirst(Tail(s), keep)

RECURSIVE SumSeq(_)
SumSeq(s) == IF s = <<>> THEN 0 ELSE Head(s) + SumSeq(Tail(s))

\* The comparator puts keys[j] before keys[i], or leaves them in input order
Before(keys, j, i, desc) ==
    \/ IF desc THEN keys[j] > keys[i] ELSE keys[j] < keys[i]
    \/ keys[j] = keys[i] /\ j < i

\* A sort that puts rows of equal key in the reverse of their input order
ReverseTies(keys, desc) ==
    [k \in 1..Len(keys) |->
        CHOOSE i \in 1..Len(keys) :
            Cardinality({j \in 1..Len(keys) :
                            \/ IF desc THEN keys[j] > keys[i] ELSE keys[j] < keys[i]
                            \/ keys[j] = keys[i] /\ j > i}) = k - 1]

\* The index of the key that k - 1 keys come before, for every k
SortOrder(keys, desc) ==
    [k \in 1..Len(keys) |->
        CHOOSE i \in 1..Len(keys) :
            Cardinality({j \in 1..Len(keys) : Before(keys, j, i, desc)}) = k - 1] \o <<>>

\* Array.prototype.sort with a numeric comparator is stable: the indices of
\* keys in ascending (desc = FALSE) or descending order, ties in input order
StableSort(keys, desc) == SortOrder(keys \o <<>>, desc)

\* The elements of a set of numbers in ascending order
Ascending(S) ==
    [k \in 1..Cardinality(S) |->
        CHOOSE i \in S : Cardinality({j \in S : j < i}) = k - 1] \o <<>>

\* The indices up to n that are in the set keep, ascending
IndicesIn(n, keep) == Ascending(keep \cap (1..n))

\* The elements of s in the order of the indices ord
Permute(s, ord) == [i \in 1..Len(ord) |-> s[ord[i]]] \o <<>>

\* The distinct elements of s in the order of their first occurrence: the
\* insertion order of a Set, and of the string keys of an object
FirstSeen(s) ==
    Permute(s, IndicesIn(Len(s), {i \in 1..Len(s) : \A j \in 1..(i - 1) : s[j] # s[i]}))

\* The index keys of ks in ascending numeric order
IndexKeysAscending(idx) ==
    Permute(idx, StableSort([i \in 1..Len(idx) |-> DigitsVal(idx[i])], FALSE))

\* Object.keys: the index keys ascending, then the other keys as inserted
KeyOrder(ks) ==
    IndexKeysAscending(FilterSeq(ks, {k \in Range(ks) : IsIndexKey(k)}))
        \o FilterSeq(ks, {k \in Range(ks) : ~IsIndexKey(k)})

\* Object.keys(o) of an object the keys ks were assigned to in that order
KeysOf(ks) == KeyOrder(FirstSeen(ks))

\* ------------------------------------------------------------------------
\* Rows
\* ------------------------------------------------------------------------

\* Object.keys(rec)
ObjectKeys(rec) == KeysOf([i \in 1..Len(rec) |-> rec[i][1]])

HasKey(rec, k) == \E i \in 1..Len(rec) : rec[i][1] = k

\* rec[k], for a key the row has
Get(rec, k) == rec[CHOOSE i \in 1..Len(rec) : rec[i][1] = k][2]

\* rec[k] is truthy: the key is there and its value is not the empty string
Truthy(rec, k) == HasKey(rec, k) /\ Get(rec, k) # ""

\* ------------------------------------------------------------------------
\* Schema inference (buildSchema)
\* ------------------------------------------------------------------------

FIELD_SYNONYMS == <<
    [canonical |-> "rating",
     syns |-> <<"rate", "score", "imdb", "stars", "rated">>],
    [canonical |-> "boxoffice",
     syns |-> <<"boxoffice", "box_office", "revenue", "gross", "earning", "earnings">>],
    [canonical |-> "units_sold",
     syns |-> <<"sold", "qty", "quantity", "units", "items_sold", "count_sold",
                "sales", "sales_volume", "volume", "amount_sold">>],
    [canonical |-> "duration",
     syns |-> <<"runtime", "length", "minutes", "mins", "long", "time">>],
    [canonical |-> "year",
     syns |-> <<"release", "released", "yr", "decade">>],
    [canonical |-> "age",
     syns |-> <<"old", "years_old">>],
    [canonical |-> "fare",
     syns |-> <<"ticket", "price", "cost", "fee", "paid", "unit_price", "rate", "charge">>],
    [canonical |-> "votes",
     syns |-> <<"vote", "reviews", "review">>],
    [canonical |-> "profit",
     syns |-> <<"margin", "net", "gain", "earnings", "income">>] >>

TITLE_CANDIDATES ==
    {"title", "name", "movie", "film", "song", "book", "product", "item", "show"}

EmptySchema ==
    [allFields |-> <<>>, numericFields |-> <<>>, categoricalFields |-> <<>>,
     titleField |-> NULL, aliases |-> <<>>, ranges |-> <<>>, topValues |-> <<>>]

\* The keys of every row, row after row
RECURSIVE AllKeys(_)
AllKeys(recs) ==
    IF recs = <<>> THEN <<>> ELSE ObjectKeys(Head(recs)) \o AllKeys(Tail(recs))

\* new Set() filled with every key of every row, in first-seen order
FieldSet(recs) == FirstSeen(AllKeys(recs))

\* records.flatMap(r => r[field]?.trim() ? [r[field].trim()] : [])
RECURSIVE FieldVals(_, _)
FieldVals(recs, field) ==
    IF recs = <<>> THEN <<>>
    ELSE (IF HasKey(Head(recs), field) /\ Trim(Get(Head(recs), field)) # ""
          THEN <<Trim(Get(Head(recs), field))>> ELSE <<>>)
         \o FieldVals(Tail(recs), field)

IsNumericValue(v) == ~ParseFloatIsNaN(v) /\ NumberIsFinite(v)

NumCount(vals) == Cardinality({i \in 1..Len(vals) : IsNumericValue(vals[i])})

\* numCount / vals.length > 0.6
IsNumericField(vals) == 5 * NumCount(vals) > 3 * Len(vals)

\* A conversion in which a value that is no number counts as 0
NumsOrZero(vals) ==
    {IF NumberIsFinite(vals[i]) THEN NumberOf(vals[i]) ELSE 0 : i \in 1..Len(vals)}

\* vals.map(Number).filter(n => !isNaN(n) && isFinite(n))
Nums(vals) == {NumberOf(vals[i]) : i \in {j \in 1..Len(vals) : NumberIsFinite(vals[j])}}

SetMin(S) == CHOOSE x \in S : \A y \in S : x <= y

SetMax(S) == CHOOSE x \in S : \A y \in S : x >= y

RangeOf(nums) == [min |-> SetMin(nums), max |-> SetMax(nums)]

UniqueLower(vals) == {ToLowerCase(vals[i]) : i \in 1..Len(vals)}

FewUnique(size, length) == size <= 50 \/ 10 * size < 3 * length

\* unique.size <= 50 || unique.size / vals.length < 0.3
IsCategoricalField(vals) == FewUnique(Cardinality(UniqueLower(vals)), Len(vals))

\* The keys of freq, in object key order
FreqKeys(vals) == KeysOf(vals)

Freq(vals, v) == Cardinality({i \in 1..Len(vals) : vals[i] = v})

FreqOfKeys(vals, ks) == [i \in 1..Len(ks) |-> Freq(vals, ks[i])]

TopOf(vals, ks) == Take(Permute(ks, StableSort(FreqOfKeys(vals, ks), TRUE)), 20)

\* Object.entries(freq).sort((a, b) => b[1] - a[1]).slice(0, 20).map(([v]) => v)
TopValues(vals) == TopOf(vals, FreqKeys(vals))

\* addAlias(a, t): the assignment aliases[key] = t it makes, if any
Assigned(key, t) == IF key # "" THEN <<(<<key, t>>)>> ELSE <<>>

AddAlias(a, t) == Assigned(Trim(ToLowerCase(a)), t)

SingularAlias(f) == IF EndsWith(f, "s") THEN AddAlias(SubSeq(f, 1, Len(f) - 1), f) ELSE <<>>

\* The assignments of the loop body for field f
FieldAliases(f) ==
    AddAlias(f, f) \o AddAlias(ReplaceSep(f, ""), f) \o AddAlias(ReplaceSep(f, " "), f)
        \o SingularAlias(f)

\* for (const f of allFields) { ... }: the assignments, in order
RECURSIVE AllFieldAliases(_)
AllFieldAliases(fs) ==
    IF fs = <<>> THEN <<>> ELSE FieldAliases(Head(fs)) \o AllFieldAliases(Tail(fs))

\* for (const s of syns) { ... }: the assignments, in order
RECURSIVE SynAliases(_, _)
SynAliases(syns, actual) ==
    IF syns = <<>> THEN <<>>
    ELSE AddAlias(Head(syns), actual) \o AddAlias(ReplaceSep(Head(syns), ""), actual)
             \o SynAliases(Tail(syns), actual)

\* a ?? b
Coalesce(a, b) == IF a # NULL THEN a ELSE b

\* A target that is the canonical name whether or not a field carries it
CanonicalTarget(allFields, group) == group.canonical

\* allFields.find(f => f.includes(canonical))
\*   ?? allFields.find(f => syns.some(s => f.includes(s)))
SynonymTarget(allFields, group) ==
    Coalesce(FindFirst(allFields, {f \in Range(allFields) : Includes(f, group.canonical)}),
             FindFirst(allFields,
                 {f \in Range(allFields) : \E s \in Range(group.syns) : Includes(f, s)}))

GroupAliasesFor(group, actual) ==
    IF actual # NULL
    THEN AddAlias(group.canonical, actual) \o SynAliases(group.syns, actual)
    ELSE <<>>

\* for (const [canonical, syns] of Object.entries(FIELD_SYNONYMS)) { ... }
RECURSIVE GroupAliases(_, _)
GroupAliases(groups, allFields) ==
    IF groups = <<>> THEN <<>>
    ELSE GroupAliasesFor(Head(groups), SynonymTarget(allFields, Head(groups)))
             \o GroupAliases(Tail(groups), allFields)

\* The alias object: every assigned key with the value assigned last
AliasObject(log) ==
    [k \in {log[i][1] : i \in 1..Len(log)} |->
        log[CHOOSE i \in 1..Len(log) :
                /\ log[i][1] = k
                /\ \A j \in (i + 1)..Len(log) : log[j][1] # k][2]]

\* The schema, from the values of every field and the sets of the fields
\* classified numeric and categorical
SchemaWith(allFields, vals, isNum, isCat) ==
    [allFields |-> allFields,
     numericFields |-> FilterSeq(allFields, isNum),
     categoricalFields |-> FilterSeq(allFields, isCat),
     titleField |-> FindFirst(allFields, TITLE_CANDIDATES),
     aliases |-> AliasObject(
         AllFieldAliases(allFields) \o GroupAliases(FIELD_SYNONYMS, allFields)),
     ranges |-> [f \in {g \in isNum : Nums(vals[g]) # {}} |-> RangeOf(Nums(vals[f]))],
     topValues |-> [f \in isCat |-> TopValues(vals[f])]]

Classified(allFields, vals) ==
    SchemaWith(allFields, vals,
        {f \in Range(allFields) : vals[f] # <<>> /\ IsNumericField(vals[f])},
        {f \in Range(allFields) :
            /\ vals[f] # <<>>
            /\ ~IsNumericField(vals[f])
            /\ IsCategoricalField(vals[f])})

SchemaOf(recs, allFields) ==
    Classified(allFields, [f \in Range(allFields) |-> FieldVals(recs, f)])

buildSchema(recs) == IF recs = <<>> THEN EmptySchema ELSE SchemaOf(recs, FieldSet(recs))

\* ------------------------------------------------------------------------
\* Field resolution
\* ------------------------------------------------------------------------

AliasOf(sch, t) == IF t \in DOMAIN sch.aliases THEN sch.aliases[t] ELSE NULL

\* A fuzzy step that accepts a contained string of any length
RECURSIVE FuzzyAnyLength(_, _)
FuzzyAnyLength(fs, t) ==
    IF fs = <<>> THEN NULL
    ELSE IF Includes(Head(fs), t) \/ Includes(t, Head(fs)) THEN Head(fs)
    ELSE FuzzyAnyLength(Tail(fs), t)

\* for (const f of schema.allFields) { ... } of resolveField
RECURSIVE FuzzyField(_, _)
FuzzyField(fs, t) ==
    IF fs = <<>> THEN NULL
    ELSE IF Len(t) >= 4 /\ Includes(Head(fs), t) THEN Head(fs)
    ELSE IF Len(Head(fs)) >= 4 /\ Includes(t, Head(fs)) THEN Head(fs)
    ELSE FuzzyField(Tail(fs), t)

ResolveClean(t, tClean, sch) ==
    IF AliasOf(sch, t) # NULL THEN AliasOf(sch, t)
    ELSE IF AliasOf(sch, tClean) # NULL THEN AliasOf(sch, tClean)
    ELSE FuzzyField(sch.allFields, t)

ResolveLower(t, sch) == IF t = "" THEN NULL ELSE ResolveClean(t, ReplaceSep(t, ""), sch)

resolveField(target, sch) == ResolveLower(Trim(ToLowerCase(target)), sch)

IsNumeric(sch, f) == f \in Range(sch.numericFields)

IsCategorical(sch, f) == f \in Range(sch.categoricalFields)

\* r && schema.numericFields.includes(r)
NumericOrNull(r, sch) == IF r # NULL /\ IsNumeric(sch, r) THEN r ELSE NULL

RankPreferred == <<"rating", "score", "imdb", "votes", "boxoffice", "revenue">>

RECURSIVE FirstPreferred(_, _)
FirstPreferred(prefs, sch) ==
    IF prefs = <<>> THEN NULL
    ELSE Coalesce(NumericOrNull(resolveField(Head(prefs), sch), sch),
                  FirstPreferred(Tail(prefs), sch))

\* schema.numericFields[0] ?? 'rating'
FirstNumericOr(sch) == IF sch.numericFields # <<>> THEN sch.numericFields[1] ELSE "rating"

defaultRankField(sch) == Coalesce(FirstPreferred(RankPreferred, sch), FirstNumericOr(sch))

\* The loop of findField over Object.keys(record)
RECURSIVE FuzzyKey(_, _)
FuzzyKey(ks, t) ==
    IF ks = <<>> THEN NULL
    ELSE IF Includes(Head(ks), t) \/ Includes(t, Head(ks)) THEN Head(ks)
    ELSE FuzzyKey(Tail(ks), t)

\* if (record[t]) return t; for (const key of Object.keys(record)) ...
FindKey(rec, t) == IF Truthy(rec, t) THEN t ELSE FuzzyKey(ObjectKeys(rec), t)

\* resolveField(target, schema) ?? target.toLowerCase()
ResolvedOr(r, target) == IF r # NULL THEN r ELSE ToLowerCase(target)

\* findField(record, target, schema) of the chat route
findField(rec, target, sch) == FindKey(rec, ResolvedOr(resolveField(target, sch), target))

\* ------------------------------------------------------------------------
\* Regular expressions over a question (a sequence of lower-case words)
\* ------------------------------------------------------------------------

\* The text of the question: message.toLowerCase()
RECURSIVE Text(_)
Text(q) ==
    IF q = <<>> THEN ""
    ELSE IF Len(q) = 1 THEN q[1]
    ELSE q[1] \o " " \o Text(Tail(q))

\* Index in the text of the first and of the last character of word i
RECURSIVE Offset(_, _)
Offset(q, i) == IF i = 1 THEN 1 ELSE Offset(q, i - 1) + Len(q[i - 1]) + 1

EndOffset(q, i) == Offset(q, i) + Len(q[i]) - 1

\* \b(phrase)\b matches at word i
KwAt(q, i, kw) == i + Len(kw) - 1 <= Len(q) /\ SubSeq(q, i, i + Len(kw) - 1) = kw

\* /\b(kw1|kw2|...)\b/.test(lower)
HasKw(q, kws) == \E i \in 1..Len(q) : \E kw \in kws : KwAt(q, i, kw)

\* \b(phrase) matches at word i, with no word boundary required after it
PrefixAt(q, i, kw) ==
    /\ i + Len(kw) - 1 <= Len(q)
    /\ SubSeq(q, i, i + Len(kw) - 2) = SubSeq(kw, 1, Len(kw) - 1)
    /\ StartsWith(q[i + Len(kw) - 1], kw[Len(kw)])

SetMinOr0(S) == IF S = {} THEN 0 ELSE SetMin(S)

StartsWithLetter(w) == w # "" /\ CharAt(w, 1) \in Letters

StartsWithDigit(w) == w # "" /\ CharAt(w, 1) \in Digits

HasLetter(w) == \E i \in 1..Len(w) : CharAt(w, i) \in Letters

\* \b(kw)\b[^a-z0-9]*([0-9]+) matches at word i
KwDigitAt(q, i, kw) ==
    KwAt(q, i, kw) /\ i + Len(kw) <= Len(q) /\ StartsWithDigit(q[i + Len(kw)])

NumberAfter(q, kws, i0) ==
    IF i0 = 0 THEN 0 ELSE i0 + Len(CHOOSE kw \in kws : KwDigitAt(q, i0, kw))

\* /\b(kw)\b[^a-z0-9]*([0-9]+)/: word index of the number of the leftmost
\* match, 0 if there is none
KwNumber(q, kws) ==
    NumberAfter(q, kws, SetMinOr0({i \in 1..Len(q) : \E kw \in kws : KwDigitAt(q, i, kw)}))

\* parseInt of the digits a number word starts with
ParseInt(w) == DigitsVal(SubSeq(w, 1, DigitPrefix(w)))

\* The word [^a-z]*\b([a-z][a-z0-9_]*)\b captures after position i: words
\* without a letter are skipped; 0 if the next word with a letter starts
\* with a digit or there is none
RECURSIVE NextWord(_, _)
NextWord(q, i) ==
    IF i > Len(q) THEN 0
    ELSE IF StartsWithLetter(q[i]) THEN i
    ELSE IF HasLetter(q[i]) THEN 0
    ELSE NextWord(q, i + 1)

WordAfter(q, kws, i0) ==
    IF i0 = 0 THEN 0
    ELSE NextWord(q, i0 + Len(CHOOSE kw \in kws :
                                  KwAt(q, i0, kw) /\ NextWord(q, i0 + Len(kw)) # 0))

\* /\b(kw)\b[^a-z]*\b([a-z][a-z0-9_]*)\b/: index of the captured word of the
\* leftmost match, 0 if there is none
KwWord(q, kws) ==
    WordAfter(q, kws,
        SetMinOr0({i \in 1..Len(q) : \E kw \in kws :
                       KwAt(q, i, kw) /\ NextWord(q, i + Len(kw)) # 0}))

DigitWithin(t, from, n) == \E p \in from..(from + n) : p <= Len(t) /\ CharAt(t, p) \in Digits

\* /\b(kw)\b.{0,n}[0-9]/: a digit at most n characters after a keyword
KwThenDigit(q, kws, n) ==
    \E i \in 1..Len(q) : \E kw \in kws :
        KwAt(q, i, kw) /\ DigitWithin(Text(q), EndOffset(q, i + Len(kw) - 1) + 1, n)

Within(from, e, n) == from > e /\ from <= e + n + 1

\* /\b(kw).{0,n}\b(w1|w2|...)/: a match of one of ws begins at most n
\* characters after a match of a keyword; bl and br tell whether a word
\* boundary must follow the keyword and the word
KwThenWord(q, kws, bl, n, ws, br) ==
    \E i \in 1..Len(q) : \E kw \in kws :
        /\ IF bl THEN KwAt(q, i, kw) ELSE PrefixAt(q, i, kw)
        /\ \E j \in 1..Len(q) : \E w \in ws :
               /\ IF br THEN KwAt(q, j, w) ELSE PrefixAt(q, j, w)
               /\ Within(Offset(q, j),
                         Offset(q, i + Len(kw) - 1) + Len(kw[Len(kw)]) - 1, n)

\* ------------------------------------------------------------------------
\* Intent detectors
\* ------------------------------------------------------------------------

\* categoryFilter: undefined
NoCategoryFilter == [field |-> NULL, value |-> NULL]

NoTopN == [isTopN |-> FALSE, n |-> 0, field |-> "", order |-> "desc",
           categoryFilter |-> NoCategoryFilter]

\* /\bby\s+([a-z][a-z0-9\s_]*?)(?:\s|$)/: the word after the first "by"
\* that a word starting with a letter follows, 0 if none
ByWord(q) == SetMinOr0({i \in 2..Len(q) : q[i - 1] = "by" /\ StartsWithLetter(q[i])})

\* The first word of the question, outside skip, that resolves to a numeric field
RECURSIVE FirstNumericWord(_, _, _)
FirstNumericWord(q, skip, sch) ==
    IF q = <<>> THEN NULL
    ELSE Coalesce(IF Head(q) \in skip THEN NULL
                  ELSE NumericOrNull(resolveField(Head(q), sch), sch),
                  FirstNumericWord(Tail(q), skip, sch))

\* outer: for catField of categoricalFields, for val of topValues[catField]
RECURSIVE FirstValueIn(_, _)
FirstValueIn(vals, text) ==
    IF vals = <<>> THEN NULL
    ELSE IF Includes(text, ToLowerCase(Head(vals))) THEN Head(vals)
    ELSE FirstValueIn(Tail(vals), text)

FilterOr(field, v, rest) == IF v # NULL THEN [field |-> field, value |-> v] ELSE rest

RECURSIVE CategoryFilter(_, _, _)
CategoryFilter(cats, sch, text) ==
    IF cats = <<>> THEN NoCategoryFilter
    ELSE FilterOr(Head(cats), FirstValueIn(sch.topValues[Head(cats)], text),
                  CategoryFilter(Tail(cats), sch, text))

TopKw == {<<"top">>, <<"best">>, <<"highest", "rate">>, <<"highest", "rated">>, <<"most">>}

BottomKw == {<<"bottom">>, <<"worst">>, <<"lowest", "rate">>, <<"lowest", "rated">>, <<"least">>}

\* The sort field of detectTopN
TopNField(q, sch) ==
    Coalesce(IF ByWord(q) # 0 THEN resolveField(q[ByWord(q)], sch)
             ELSE FirstNumericWord(q, {}, sch),
             defaultRankField(sch))

TopNIntent(q, sch, n, order) ==
    IF n = 0 THEN NoTopN
    ELSE [isTopN |-> TRUE, n |-> n, field |-> TopNField(q, sch), order |-> order,
          categoryFilter |-> CategoryFilter(sch.categoricalFields, sch, Text(q))]

TopNMatched(q, sch, topMatch, bottomMatch) ==
    TopNIntent(q, sch,
        IF topMatch # 0 THEN Min2(ParseInt(q[topMatch]), 100)
        ELSE IF bottomMatch # 0 THEN Min2(ParseInt(q[bottomMatch]), 100)
        ELSE 0,
        IF topMatch = 0 /\ bottomMatch # 0 THEN "asc" ELSE "desc")

detectTopN(q, sch) == TopNMatched(q, sch, KwNumber(q, TopKw), KwNumber(q, BottomKw))

NoGroupBy == [isGroupBy |-> FALSE, groupField |-> "", metricField |-> "", aggType |-> "sum"]

PerKw == {<<"per">>, <<"by", "each">>, <<"for", "each">>}

PerAt(q, i) ==
    \E kw \in PerKw : KwAt(q, i, kw) /\ i + Len(kw) <= Len(q) /\ StartsWithLetter(q[i + Len(kw)])

PerCapture(q, i0) == IF i0 = 0 THEN 0 ELSE IF q[i0] = "per" THEN i0 + 1 ELSE i0 + 2

\* /\b(?:per|by each|for each)\s+([a-z][a-z0-9_]*)\b/: the captured word
PerWord(q) == PerCapture(q, SetMinOr0({i \in 1..Len(q) : PerAt(q, i)}))

\* /\bby\s+([a-z][a-z0-9_]*)\s*[?.]?\s*$/: the last word, when "by" precedes it
TrailingByWord(q) ==
    IF Len(q) >= 2 /\ q[Len(q) - 1] = "by" /\ StartsWithLetter(q[Len(q)])
    THEN Len(q) ELSE 0

\* perMatch: a ?? b?.index !== undefined ? c : null  parses as
\* (a ?? (b?.index !== undefined)) ? c : null, with b = c the trailing match
PerMatch(q) ==
    IF (IF PerWord(q) # 0 THEN TRUE ELSE TrailingByWord(q) # 0)
    THEN TrailingByWord(q)
    ELSE 0

TimeUnits == {"year", "month", "date", "time", "day", "week", "quarter",
              "years", "months", "dates", "times", "days", "weeks", "quarters"}

GroupByAggType(q) ==
    IF HasKw(q, {<<"average">>, <<"avg">>, <<"mean">>}) THEN "avg"
    ELSE IF HasKw(q, {<<"max">>, <<"maximum">>, <<"highest">>}) THEN "max"
    ELSE IF HasKw(q, {<<"min">>, <<"minimum">>, <<"lowest">>}) THEN "min"
    ELSE IF HasKw(q, {<<"count">>, <<"how", "many">>}) THEN "count"
    ELSE "sum"

GroupBySkip == {"per", "by", "each", "for", "in", "total", "sum", "average", "avg",
                "mean", "max", "min", "highest", "lowest", "the", "of", "a", "an",
                "revenue"}

GroupBySkip2 == {"per", "by", "each", "for", "in", "the", "of", "a", "an"}

\* words of fewer than 2 characters are skipped by the first metric scan
ShortWords(q) == {q[i] : i \in {j \in 1..Len(q) : Len(q[j]) < 2}}

GroupByMetric(q, sch, groupWord, aggType) ==
    Coalesce(Coalesce(FirstNumericWord(q, GroupBySkip \cup {groupWord} \cup ShortWords(q), sch),
                      FirstNumericWord(q, GroupBySkip2 \cup {groupWord}, sch)),
             IF aggType # "count" THEN defaultRankField(sch) ELSE "")

GroupByIntent(q, sch, groupWord, resolved, aggType) ==
    IF groupWord \in TimeUnits THEN NoGroupBy
    ELSE IF resolved = NULL \/ ~IsCategorical(sch, resolved) THEN NoGroupBy
    ELSE [isGroupBy |-> TRUE, groupField |-> resolved,
          metricField |-> GroupByMetric(q, sch, groupWord, aggType),
          aggType |-> aggType]

GroupByOn(q, sch, groupWord) ==
    GroupByIntent(q, sch, groupWord, resolveField(groupWord, sch), GroupByAggType(q))

detectGroupBy(q, sch) ==
    IF PerMatch(q) = 0 THEN NoGroupBy ELSE GroupByOn(q, sch, q[PerMatch(q)])

NoListAll == [isListAll |-> FALSE, field |-> ""]

\* r && (categoricalFields.includes(r) || allFields.includes(r))
FieldOrNull(r, sch) ==
    IF r # NULL /\ (IsCategorical(sch, r) \/ r \in Range(sch.allFields)) THEN r ELSE NULL

\* The first word of at least 2 characters that resolves to a field
RECURSIVE FirstResolved(_, _)
FirstResolved(q, sch) ==
    IF q = <<>> THEN NULL
    ELSE Coalesce(FieldOrNull(IF Len(Head(q)) >= 2 THEN resolveField(Head(q), sch) ELSE NULL,
                              sch),
                  FirstResolved(Tail(q), sch))

ListAllOf(r) == IF r = NULL THEN NoListAll ELSE [isListAll |-> TRUE, field |-> r]

detectListAll(q, sch) ==
    IF ~HasKw(q, {<<"all">>, <<"list">>, <<"show">>, <<"give">>, <<"display">>,
                  <<"what", "are">>, <<"get">>})
    THEN NoListAll
    ELSE ListAllOf(FirstResolved(q, sch))

NoGroupRank == [isGroupRank |-> FALSE, groupField |-> "", metric |-> "", order |-> "desc"]

\* classify(field) of detectGroupRank; NoGroupRank stands for its null
Classify(q, field, rankField) ==
    IF HasKw(q, {<<"best">>, <<"top">>, <<"highest">>, <<"greatest">>,
                 <<"highestrate">>, <<"highestrated">>})
    THEN [isGroupRank |-> TRUE, groupField |-> field, metric |-> rankField, order |-> "desc"]
    ELSE IF HasKw(q, {<<"worst">>, <<"lowest">>, <<"weakest">>,
                      <<"lowestrate">>, <<"lowestrated">>})
    THEN [isGroupRank |-> TRUE, groupField |-> field, metric |-> rankField, order |-> "asc"]
    ELSE IF HasKw(q, {<<"most", "popular">>, <<"most", "common">>,
                      <<"most", "frequent">>, <<"popular">>})
    THEN [isGroupRank |-> TRUE, groupField |-> field, metric |-> "count", order |-> "desc"]
    ELSE NoGroupRank

\* r && schema.categoricalFields.includes(r)
CategoricalOrNull(r, sch) == IF r # NULL /\ IsCategorical(sch, r) THEN r ELSE NULL

\* The first word of the question that resolves to a categorical field
RECURSIVE FirstCategoricalWord(_, _)
FirstCategoricalWord(q, sch) ==
    IF q = <<>> THEN NULL
    ELSE Coalesce(CategoricalOrNull(resolveField(Head(q), sch), sch),
                  FirstCategoricalWord(Tail(q), sch))

\* classify(field) when field was found, null otherwise
ClassifyFound(q, field, rankField) ==
    IF field = NULL THEN NoGroupRank ELSE Classify(q, field, rankField)

OrGroupRank(a, b) == IF a.isGroupRank THEN a ELSE b

GroupRankWith(q, sch, rankField) ==
    OrGroupRank(
        ClassifyFound(q, FindFirst(sch.categoricalFields,
                             {f \in Range(sch.categoricalFields) : Includes(Text(q), f)}),
                      rankField),
        ClassifyFound(q, FirstCategoricalWord(q, sch), rankField))

detectGroupRank(q, sch) == GroupRankWith(q, sch, defaultRankField(sch))

NoConditionalCount == [isConditionalCount |-> FALSE, field |-> "", value |-> NULL, op |-> "="]

HaveCapture(q, i0) ==
    IF i0 = 0 THEN 0
    ELSE IF q[i0 + 1] \in {"a", "an"} /\ i0 + 2 <= Len(q) /\ StartsWithLetter(q[i0 + 2])
    THEN i0 + 2
    ELSE i0 + 1

\* /\b(?:have|has|with)\s+(?:a\s+|an\s+)?([a-z][a-z0-9_]*)\b/: the captured word
HaveWord(q) ==
    HaveCapture(q, SetMinOr0({i \in 1..(Len(q) - 1) :
                                  q[i] \in {"have", "has", "with"} /\ StartsWithLetter(q[i + 1])}))

IsAllDigits(w) == w # "" /\ DigitPrefix(w) = Len(w)

\* /\b([a-z][a-z0-9_]*)\s+([0-9]+)\b/: index of the word of the leftmost match
FieldNumWord(q) ==
    SetMinOr0({i \in 1..(Len(q) - 1) : StartsWithLetter(q[i]) /\ IsAllDigits(q[i + 1])})

\* The first numeric field with range 0..1 that the question names
BinaryField(q, sch) ==
    FindFirst(sch.numericFields,
        {f \in Range(sch.numericFields) :
             /\ f \in DOMAIN sch.ranges
             /\ sch.ranges[f].min = 0 /\ sch.ranges[f].max = 1
             /\ f \in Range(q)})

\* resolveField of the word at index i, null when the pattern did not match
ResolveAt(q, i, sch) == IF i # 0 THEN resolveField(q[i], sch) ELSE NULL

CountBinary(bin) ==
    IF bin # NULL
    THEN [isConditionalCount |-> TRUE, field |-> bin, value |-> "1", op |-> "="]
    ELSE NoConditionalCount

CountFieldNum(q, sch, fnum) ==
    IF fnum # NULL /\ fnum # "rows"
    THEN [isConditionalCount |-> TRUE, field |-> fnum,
          value |-> q[FieldNumWord(q) + 1], op |-> "="]
    ELSE CountBinary(BinaryField(q, sch))

CountHave(q, sch, have) ==
    IF have # NULL
    THEN [isConditionalCount |-> TRUE, field |-> have, value |-> NULL, op |-> "nonempty"]
    ELSE CountFieldNum(q, sch, ResolveAt(q, FieldNumWord(q), sch))

detectConditionalCount(q, sch) ==
    IF ~HasKw(q, {<<"how", "many">>, <<"count">>, <<"number", "of">>})
    THEN NoConditionalCount
    ELSE CountHave(q, sch, ResolveAt(q, HaveWord(q), sch))

NoFilteredAgg == [isFilteredAgg |-> FALSE, aggType |-> "sum", metricField |-> "",
                  filterField |-> "", filterValue |-> ""]

FilteredAggKw == {<<"total">>, <<"sum">>, <<"average">>, <<"avg">>, <<"mean">>,
                  <<"count">>, <<"how", "many">>}

InWords == {"in", "for", "from", "within"}

\* /\b(?:in|for|from|within)\s+([a-z][a-z0-9\s]*)(?:\s*[?.]?\s*$)/: index of
\* the first word of the captured phrase, which runs to the end of the text
FilterPhraseStart(q) ==
    SetMinOr0({i + 1 : i \in {j \in 1..(Len(q) - 1) :
                   /\ q[j] \in InWords
                   /\ StartsWithLetter(q[j + 1])
                   /\ \A k \in (j + 1)..Len(q) : ~Includes(q[k], "_")}})

\* filterPhrase.replace(/s$/, '')
DropFinalS(p) == IF EndsWith(p, "s") THEN SubSeq(p, 1, Len(p) - 1) ELSE p

\* v === filterPhrase || v === filterPhrase.replace(/s$/, '') || v + 's' === filterPhrase
ValueMatches(v, phrase) == v = phrase \/ v = DropFinalS(phrase) \/ phrase = v \o "s"

RECURSIVE FirstValueMatching(_, _)
FirstValueMatching(vals, phrase) ==
    IF vals = <<>> THEN NULL
    ELSE IF ValueMatches(ToLowerCase(Head(vals)), phrase) THEN Head(vals)
    ELSE FirstValueMatching(Tail(vals), phrase)

RECURSIVE FilterTarget(_, _, _)
FilterTarget(cats, sch, phrase) ==
    IF cats = <<>> THEN NoCategoryFilter
    ELSE FilterOr(Head(cats), FirstValueMatching(sch.topValues[Head(cats)], phrase),
                  FilterTarget(Tail(cats), sch, phrase))

FilteredAggStop == {"total", "sum", "average", "avg", "mean", "count", "how", "many",
                    "the", "of", "a", "an", "is", "are"}

\* The words between the aggregation keyword and the filter preposition
AggToFilter(q, aggIdx, filterIdx) ==
    SubSeq(q, aggIdx, IF filterIdx > aggIdx THEN filterIdx - 1 ELSE Len(q))

FilteredAggMid(q) ==
    AggToFilter(q, SetMin({i \in 1..Len(q) : \E kw \in FilteredAggKw : KwAt(q, i, kw)}),
                SetMinOr0({i \in 1..(Len(q) - 1) : q[i] \in InWords}))

FilteredAggFound(mid, sch) == FirstNumericWord(mid, FilteredAggStop \cup ShortWords(mid), sch)

FilteredAggType(q, found) ==
    IF HasKw(q, {<<"average">>, <<"avg">>, <<"mean">>}) THEN "avg"
    ELSE IF found # NULL /\ found # "rows" THEN "sum"
    ELSE "count"

FilteredAggMetric(found, aggType, sch) ==
    IF found # NULL THEN found
    ELSE IF aggType = "count" THEN "rows"
    ELSE defaultRankField(sch)

FilteredAggIntent(q, sch, target, found) ==
    IF target = NoCategoryFilter THEN NoFilteredAgg
    ELSE [isFilteredAgg |-> TRUE, aggType |-> FilteredAggType(q, found),
          metricField |-> FilteredAggMetric(found, FilteredAggType(q, found), sch),
          filterField |-> target.field, filterValue |-> target.value]

detectFilteredAgg(q, sch) ==
    IF ~HasKw(q, FilteredAggKw) \/ FilterPhraseStart(q) = 0 THEN NoFilteredAgg
    ELSE FilteredAggIntent(q, sch,
             FilterTarget(sch.categoricalFields, sch,
                          Text(SubSeq(q, FilterPhraseStart(q), Len(q)))),
             FilteredAggFound(FilteredAggMid(q), sch))

NoAggregate == [isAggregate |-> FALSE, type |-> "", field |-> ""]

Aggregate(type, field) == [isAggregate |-> TRUE, type |-> type, field |-> field]

EntityWords == {"passenger", "passengers", "people", "person", "persons",
                "row", "rows", "record", "records", "entry", "entries", "item", "items",
                "survivor", "survivors", "movie", "movies", "film", "films"}

CountFillers == {"total", "all", "overall", "are", "were", "is", "the", "of", "a", "an",
                 "been", "have", "has", "much", "many"}

CountKw == {<<"how", "many">>, <<"number", "of">>, <<"total">>, <<"count">>}

AfterCountKw(q, i0) ==
    SetMinOr0({j \in (i0 + Len(CHOOSE k \in CountKw : KwAt(q, i0, k)))..Len(q) :
                   q[j] \notin CountFillers})

\* The first word after the leftmost count keyword that is no filler; 0 if none
Meaningful(q) ==
    AfterCountKw(q, SetMin({i \in 1..Len(q) : \E kw \in CountKw : KwAt(q, i, kw)}))

CountResolved(q, sch, resolved) ==
    IF resolved # NULL /\ IsNumeric(sch, resolved) THEN Aggregate("sum", resolved)
    ELSE IF resolved # NULL THEN Aggregate("countDistinct", resolved)
    ELSE IF HasKw(q, {<<"row">>, <<"record">>, <<"movie">>, <<"film">>, <<"passenger">>,
                      <<"item">>, <<"entry">>, <<"product">>, <<"order">>})
    THEN Aggregate("count", "rows")
    ELSE NoAggregate

CountOf(q, sch, m) ==
    IF m # 0 /\ q[m] \in EntityWords THEN Aggregate("count", "rows")
    ELSE CountResolved(q, sch, ResolveAt(q, m, sch))

\* The "how many X" / "total X" / "count of X" branch; NoAggregate when it
\* returns nothing
CountBranch(q, sch) == IF HasKw(q, CountKw) THEN CountOf(q, sch, Meaningful(q)) ELSE NoAggregate

SkipOf(q, w) == IF w # 0 /\ q[w] = "of" /\ NextWord(q, w + 1) # 0 THEN NextWord(q, w + 1) ELSE w

\* /\b(sum|total)\b[^a-z]*(of\b[^a-z]*)?\b([a-z][a-z0-9_]*)\b/: the captured word
SumWord(q) == SkipOf(q, KwWord(q, {<<"sum">>, <<"total">>}))

\* /\b(year|yr|open|founded|established|launched|start|date)\b/ and /year|date/
\* tested on a field name
AggTimeField(sch) ==
    Coalesce(FindFirst(sch.numericFields,
                 Range(sch.numericFields) \cap
                 {"year", "yr", "open", "founded", "established", "launched",
                  "start", "date"}),
             FindFirst(sch.numericFields,
                 {f \in Range(sch.numericFields) : Includes(f, "year") \/ Includes(f, "date")}))

\* /\b(when.*first|when.*open)\b/
WhenThen(q, w) == \E i \in 1..Len(q) : \E j \in (i + 1)..Len(q) : q[i] = "when" /\ q[j] = w

MinKwField(kw) ==
    CASE kw = "youngest" -> "age" [] kw = "cheapest" -> "fare"
      [] kw = "shortest" -> "duration" [] OTHER -> "rating"

MaxKwField(kw) ==
    CASE kw = <<"oldest">> -> "age" [] kw = <<"most", "expensive">> -> "fare"
      [] kw = <<"longest">> -> "duration" [] kw = <<"largest">> -> "rating"
      [] OTHER -> "age"

\* resolveField(map[kw], schema) ?? schema.numericFields[0]; NULL when undefined
KwField(name, sch) ==
    Coalesce(resolveField(name, sch),
             IF sch.numericFields # <<>> THEN sch.numericFields[1] ELSE NULL)

MinKws == {"youngest", "cheapest", "smallest", "shortest"}

MaxKws == {<<"oldest">>, <<"most", "expensive">>, <<"largest">>, <<"tallest">>, <<"longest">>}

FirstMinKw(q) == q[SetMin({i \in 1..Len(q) : q[i] \in MinKws})]

FirstMaxKw(q) ==
    CHOOSE kw \in MaxKws :
        KwAt(q, SetMin({i \in 1..Len(q) : \E k \in MaxKws : KwAt(q, i, k)}), kw)

HasNumberWord(q) == \E i \in 1..Len(q) : IsAllDigits(q[i])

\* a ? result : the next branch
OrAggregate(a, b) == IF a.isAggregate THEN a ELSE b

AggregateIf(type, field) == IF field # NULL THEN Aggregate(type, field) ELSE NoAggregate

TemporalMin(q) ==
    HasKw(q, {<<"earliest">>, <<"first", "to">>}) \/ WhenThen(q, "first") \/ WhenThen(q, "open")

TemporalMax(q) == HasKw(q, {<<"latest">>, <<"newest">>, <<"most", "recent">>, <<"last", "to">>})

TemporalBranch(q, sch) ==
    IF TemporalMin(q) THEN AggregateIf("findRecordMin", AggTimeField(sch))
    ELSE IF TemporalMax(q) THEN AggregateIf("findRecordMax", AggTimeField(sch))
    ELSE NoAggregate

MinKwBranch(q, sch) ==
    IF \E i \in 1..Len(q) : q[i] \in MinKws
    THEN AggregateIf("findRecordMin", KwField(MinKwField(FirstMinKw(q)), sch))
    ELSE NoAggregate

MaxKwBranch(q, sch) ==
    IF HasKw(q, MaxKws)
    THEN AggregateIf("findRecordMax", KwField(MaxKwField(FirstMaxKw(q)), sch))
    ELSE NoAggregate

\* The field the captured word w resolves to, when it is numeric
NumericAt(q, w, skip, sch) ==
    IF w # 0 /\ q[w] \notin skip THEN NumericOrNull(resolveField(q[w], sch), sch) ELSE NULL

MinBranch(q, sch) ==
    AggregateIf("min",
        NumericAt(q, KwWord(q, {<<"min">>, <<"minimum">>, <<"lowest">>, <<"smallest">>,
                                <<"least">>}), {}, sch))

MaxBranch(q, sch) ==
    AggregateIf("max",
        NumericAt(q, KwWord(q, {<<"max">>, <<"maximum">>, <<"highest">>, <<"largest">>,
                                <<"greatest">>, <<"most">>}), EntityWords, sch))

BestWorstBranch(q, sch) ==
    IF HasNumberWord(q) THEN NoAggregate
    ELSE IF HasKw(q, {<<"best">>, <<"top", "rated">>, <<"highest", "rated">>})
    THEN Aggregate("findRecordMax", defaultRankField(sch))
    ELSE IF HasKw(q, {<<"worst">>, <<"lowest", "rated">>, <<"poorest">>})
    THEN Aggregate("findRecordMin", defaultRankField(sch))
    ELSE NoAggregate

\* The branches of detectAggregation after the sum branch
AggregationTail(q, sch) ==
    OrAggregate(TemporalBranch(q, sch),
    OrAggregate(MinKwBranch(q, sch),
    OrAggregate(MaxKwBranch(q, sch),
    OrAggregate(MinBranch(q, sch),
    OrAggregate(MaxBranch(q, sch),
                BestWorstBranch(q, sch))))))

NotId(r) == IF r # NULL /\ ~EndsWith(r, "id") THEN r ELSE NULL

AvgBranch(q, sch) ==
    AggregateIf("avg",
        NotId(NumericAt(q, KwWord(q, {<<"average">>, <<"mean">>, <<"avg">>}), EntityWords, sch)))

SumBranch(q, sch) == AggregateIf("sum", NumericAt(q, SumWord(q), EntityWords, sch))

detectAggregation(q, sch) ==
    OrAggregate(CountBranch(q, sch),
    OrAggregate(AvgBranch(q, sch),
    OrAggregate(SumBranch(q, sch),
                AggregationTail(q, sch))))

LessOps == {<<"under">>, <<"below">>, <<"less", "than">>, <<"younger", "than">>,
            <<"cheaper", "than">>}

MoreOps == {<<"over">>, <<"above">>, <<"greater", "than">>, <<"older", "than">>,
            <<"more", "than">>}

\* The first run of digits of the text from word i on, as a number; -1 if none
RECURSIVE FirstNumberFrom(_)
FirstNumberFrom(t) ==
    IF t = "" THEN 0 - 1
    ELSE IF CharAt(t, 1) \in Digits THEN ParseInt(t)
    ELSE FirstNumberFrom(SubSeq(t, 2, Len(t)))

\* The comparison words at word i + 1 with a number further on
OpAt(q, i, op) ==
    KwAt(q, i + 1, op) /\ FirstNumberFrom(Text(SubSeq(q, i + 1 + Len(op), Len(q)))) >= 0

\* The leftmost match of the pattern of detectFilter: a word starting with a
\* letter, the comparison words right after it, and a number further on
FilterMatch(q) ==
    SetMinOr0({i \in 1..Len(q) :
        StartsWithLetter(q[i]) /\ \E op \in LessOps \cup MoreOps : OpAt(q, i, op)})

\* The record that stands for the null detectFilter returns
NoFilter == [isFilter |-> FALSE, field |-> "", op |-> ">", value |-> 0]

FilterIntent(q, sch, i, op) ==
    [isFilter |-> TRUE,
     field |-> Coalesce(resolveField(q[i], sch), q[i]),
     op |-> IF op \in LessOps THEN "<" ELSE ">",
     value |-> FirstNumberFrom(Text(SubSeq(q, i + 1 + Len(op), Len(q))))]

FilterAt(q, sch, i) ==
    IF i = 0 THEN NoFilter
    ELSE FilterIntent(q, sch, i, CHOOSE o \in LessOps \cup MoreOps : OpAt(q, i, o))

detectFilter(q, sch) == FilterAt(q, sch, FilterMatch(q))

NoTrend == [isTrend |-> FALSE, timeField |-> "", metricField |-> "", period |-> "year",
            aggType |-> "avg"]

TrendKw == {<<"trend">>, <<"over", "time">>, <<"per", "year">>, <<"by", "year">>,
            <<"yearly">>, <<"annual">>, <<"per", "month">>, <<"by", "month">>,
            <<"monthly">>, <<"over", "the", "years">>, <<"progression">>,
            <<"through", "the", "years">>, <<"year", "by", "year">>, <<"each", "year">>}

IsHighestYear(q) ==
    \/ KwThenWord(q, {<<"highest">>, <<"best">>, <<"which">>, <<"high">>}, FALSE, 20,
                  {<<"year">>, <<"month">>}, TRUE)
    \/ KwThenWord(q, {<<"year">>, <<"month">>}, FALSE, 20,
                  {<<"highest">>, <<"most">>, <<"best">>, <<"high">>}, TRUE)

TrendTimeField(sch) ==
    Coalesce(FindFirst(sch.numericFields, {"year", "yr"}),
    Coalesce(FindFirst(sch.numericFields, {"date", "released", "release"}),
             FindFirst(sch.allFields, {"year", "yr", "date", "released", "release"})))

PhraseEnds(q, s) == {e \in (s + 1)..Len(q) : q[e] \in {"by", "per", "over"}}

\* /\btrend\s+(?:of\s+)?([a-z][a-z0-9_\s]*?)\s+(?:by|per|over)\b/: the phrase
\* captured after "trend" at word i starting at word s; NULL if no match
TrendPhraseFrom(q, s) ==
    IF s <= Len(q) /\ StartsWithLetter(q[s]) /\ PhraseEnds(q, s) # {}
    THEN Text(SubSeq(q, s, SetMin(PhraseEnds(q, s)) - 1))
    ELSE NULL

TrendPhraseAt(q, i) ==
    IF i + 1 <= Len(q) /\ q[i + 1] = "of" /\ TrendPhraseFrom(q, i + 2) # NULL
    THEN TrendPhraseFrom(q, i + 2)
    ELSE TrendPhraseFrom(q, i + 1)

TrendPattern1(q) ==
    IF \E i \in 1..Len(q) : q[i] = "trend" /\ TrendPhraseAt(q, i) # NULL
    THEN TrendPhraseAt(q, SetMin({i \in 1..Len(q) :
                                      q[i] = "trend" /\ TrendPhraseAt(q, i) # NULL}))
    ELSE NULL

WordAt(q, i0) == IF i0 = 0 THEN NULL ELSE q[i0]

\* /\b([a-z][a-z0-9_]*)\s+(?:trend|per year|by year|over time)\b/
TrendPattern2(q) ==
    WordAt(q, SetMinOr0({i \in 1..(Len(q) - 1) :
                   /\ StartsWithLetter(q[i])
                   /\ \E kw \in {<<"trend">>, <<"per", "year">>, <<"by", "year">>,
                                 <<"over", "time">>} : KwAt(q, i + 1, kw)}))

\* /\bby\s+([a-z][a-z0-9_]+)\b/
TrendPattern3(q) ==
    WordAt(q, SetMinOr0({i \in 2..Len(q) :
                   q[i - 1] = "by" /\ StartsWithLetter(q[i]) /\ Len(q[i]) >= 2}))

\* resolved && numericFields.includes(resolved) && resolved !== timeField
MetricOrNull(r, sch, timeField) == IF r # NULL /\ r # timeField THEN r ELSE NULL

ResolveWord(w, sch) == IF w # NULL THEN resolveField(w, sch) ELSE NULL

RECURSIVE TrendMetric(_, _, _)
TrendMetric(patterns, sch, timeField) ==
    IF patterns = <<>> THEN NULL
    ELSE Coalesce(MetricOrNull(NumericOrNull(ResolveWord(Head(patterns), sch), sch),
                               sch, timeField),
                  TrendMetric(Tail(patterns), sch, timeField))

TrendPeriod(q) ==
    IF HasKw(q, {<<"month">>, <<"monthly">>}) THEN "month"
    ELSE IF HasKw(q, {<<"decade">>}) THEN "decade"
    ELSE "year"

TrendAggType(q) ==
    IF IsHighestYear(q)
       \/ HasKw(q, {<<"revenue">>, <<"sales">>, <<"income">>, <<"profit">>,
                    <<"units">>, <<"amount">>, <<"total">>})
    THEN "sum" ELSE "avg"

TrendIntent(q, sch, timeField) ==
    IF timeField = NULL THEN NoTrend
    ELSE [isTrend |-> TRUE, timeField |-> timeField,
          metricField |->
              Coalesce(TrendMetric(<<TrendPattern1(q), TrendPattern2(q), TrendPattern3(q)>>,
                                   sch, timeField),
                       defaultRankField(sch)),
          period |-> TrendPeriod(q), aggType |-> TrendAggType(q)]

detectTrend(q, sch) ==
    IF ~HasKw(q, TrendKw) /\ ~IsHighestYear(q) THEN NoTrend
    ELSE TrendIntent(q, sch, TrendTimeField(sch))

detectOutliers(q) ==
    HasKw(q, {<<"outlier">>, <<"outliers">>, <<"anomaly">>, <<"anomalies">>, <<"unusual">>,
              <<"extreme", "value">>, <<"extreme", "values">>, <<"abnormal">>})

\* ------------------------------------------------------------------------
\* The structural gate and the follow-up check
\* ------------------------------------------------------------------------

InfoLead == {<<"information", "about">>, <<"info", "about">>, <<"tell", "me", "about">>,
             <<"describe">>, <<"summary", "of">>, <<"overview", "of">>}

DataWords == {<<"dataset">>, <<"data">>, <<"file">>, <<"csv">>}

AboutDataset == {<<"about", "this", "dataset">>, <<"about", "the", "dataset">>,
                 <<"about", "this", "data">>, <<"about", "the", "data">>}

isStructuralQuery(q) ==
    \/ \E i \in 1..(Len(q) - 1) :
           /\ q[i] \in {"top", "bottom", "best", "worst", "highest", "lowest"}
           /\ StartsWithDigit(q[i + 1])
    \/ HasKw(q, {<<"how", "many">>, <<"count">>, <<"number", "of">>, <<"average">>,
                 <<"mean">>, <<"avg">>, <<"sum">>, <<"total">>, <<"minimum">>,
                 <<"maximum">>, <<"min">>, <<"max">>})
    \/ HasKw(q, {<<"best">>, <<"worst">>, <<"top">>, <<"most", "popular">>,
                 <<"most", "common">>})
    \/ KwThenDigit(q, {<<"under">>, <<"below">>, <<"less", "than">>, <<"over">>,
                       <<"above">>, <<"greater", "than">>, <<"younger", "than">>,
                       <<"older", "than">>}, 15)
    \/ KwThenWord(q, {<<"what", "are">>, <<"list">>, <<"show">>, <<"give">>,
                      <<"display">>, <<"get">>}, FALSE, 20,
                  {<<"column">>, <<"field">>, <<"header">>, <<"attribute">>}, FALSE)
    \/ HasKw(q, {<<"all">>, <<"list", "all">>, <<"show", "all">>, <<"give", "me", "all">>,
                 <<"what", "are", "all">>, <<"get", "all">>, <<"display", "all">>})
    \/ HasKw(q, {<<"trend">>, <<"over", "time">>, <<"per", "year">>, <<"by", "year">>,
                 <<"yearly">>, <<"monthly">>, <<"per", "month">>, <<"over", "the", "years">>})
    \/ HasKw(q, {<<"outlier">>, <<"outliers">>, <<"anomaly">>, <<"anomalies">>,
                 <<"unusual">>, <<"extreme", "value">>, <<"extreme", "values">>})
    \/ KwThenWord(q, {<<"highest">>, <<"best">>, <<"which">>, <<"high">>}, FALSE, 20,
                  {<<"year">>, <<"month">>}, TRUE)
    \/ KwThenWord(q, {<<"year">>, <<"month">>}, FALSE, 20,
                  {<<"highest">>, <<"most", "revenue">>, <<"most", "sales">>, <<"best">>}, TRUE)
    \/ HasKw(q, {<<"earliest">>, <<"latest">>, <<"newest">>, <<"most", "recent">>,
                 <<"first", "to">>, <<"last", "to">>})
    \/ KwThenWord(q, InfoLead, TRUE, 20, DataWords, TRUE)
    \/ KwThenWord(q, {<<"what", "is", "this">>, <<"about", "this">>},
                  TRUE, 20, DataWords, TRUE)
    \/ HasKw(q, AboutDataset)
    \/ \E i \in 1..(Len(q) - 1) : \E kw \in {<<"per">>, <<"by", "each">>, <<"for", "each">>} :
           KwAt(q, i, kw) /\ i + Len(kw) <= Len(q) /\ StartsWithLetter(q[i + Len(kw)])
    \/ HasKw(q, {<<"highest">>, <<"lowest">>})

FollowUpBackRef == {<<"this">>, <<"these">>, <<"that">>, <<"those">>, <<"the", "result">>,
                    <<"the", "results">>, <<"the", "list">>, <<"the", "ranking">>,
                    <<"the", "answer">>, <<"them">>, <<"it">>, <<"above">>, <<"previous">>,
                    <<"that", "result">>}

ExplainLeads == {"why", "how come", "what does", "what do", "what are", "what is",
                 "explain", "elaborate", "tell me more", "can you explain",
                 "could you explain", "what about", "so why", "and why", "give me reason",
                 "what is the reason", "how is", "compare", "is that", "are these",
                 "list", "show"}

\* isFollowUp without the short-message rule: only the explicit phrases
isFollowUpPhrase(q, historyLength) ==
    \/ Len(q) = 1 /\ q[1] \in {"why", "reason", "reasoning", "explain", "elaborate",
                               "how", "detail", "details"}
    \/ /\ Len(q) \in {2, 3}
       /\ q[1] = "and"
       /\ Len(q) = 3 => q[2] = "the"
       /\ q[Len(q)] \in {"worst", "best", "top", "lowest", "highest", "bottom"}
    \/ Len(q) >= 2 /\ q[1] = "what" /\ q[2] = "about" /\ Len(Text(q)) < 35
    \/ Len(q) = 3 /\ q[1] = "what" /\ q[2] = "are" /\ q[3] \in {"those", "these", "they"}
    \/ Len(q) = 2 /\ q[1] \in {"list", "show"} /\ q[2] \in {"them", "it", "me"}
    \/ HasKw(q, FollowUpBackRef) /\ \E l \in ExplainLeads : StartsWith(Text(q), l)

isFollowUp(q, historyLength) ==
    \/ Len(q) = 1 /\ q[1] \in {"why", "reason", "reasoning", "explain", "elaborate",
                               "how", "detail", "details"}
    \/ /\ Len(q) \in {2, 3}
       /\ q[1] = "and"
       /\ Len(q) = 3 => q[2] = "the"
       /\ q[Len(q)] \in {"worst", "best", "top", "lowest", "highest", "bottom"}
    \/ Len(q) >= 2 /\ q[1] = "what" /\ q[2] = "about" /\ Len(Text(q)) < 35
    \/ Len(q) = 3 /\ q[1] = "what" /\ q[2] = "are" /\ q[3] \in {"those", "these", "they"}
    \/ Len(q) = 2 /\ q[1] \in {"list", "show"} /\ q[2] \in {"them", "it", "me"}
    \/ HasKw(q, FollowUpBackRef) /\ \E l \in ExplainLeads : StartsWith(Text(q), l)
    \/ historyLength > 0 /\ Len(Text(q)) < 60 /\ ~isStructuralQuery(q)

\* hasBackRef of the contextual field lookup
ContextBackRef == {<<"this">>, <<"that">>, <<"it">>, <<"the", "same">>, <<"about", "this">>,
                   <<"for", "this">>, <<"of", "this">>, <<"for", "that">>}

\* ------------------------------------------------------------------------
\* Operation executors of the chat route
\* ------------------------------------------------------------------------

\* No response has been sent
NoResponse == [kind |-> NULL]

\* key !== null && !isNaN(parseFloat(rec[key]))
NumericKey(rec, key) == key # NULL /\ ~ParseFloatIsNaN(Get(rec, key))

\* findField gives a key whose value parses as a number
HasNumber(rec, field, sch) == NumericKey(rec, findField(rec, field, sch))

\* parseFloat(rec[findField(rec, field, schema)])
NumberAt(rec, field, sch) == ParseFloat(Get(rec, findField(rec, field, sch)))

\* key !== null && rec[key].trim().toLowerCase() === value.toLowerCase()
ValueKey(rec, key, value) == key # NULL /\ ToLowerCase(Trim(Get(rec, key))) = ToLowerCase(value)

\* The key findField gives holds the value, ignoring case and outer spaces
HasValue(rec, field, value, sch) == ValueKey(rec, findField(rec, field, sch), value)

\* records.filter(...): the rows with a number in the sort field
RankableSet(recs, field, sch) == {i \in 1..Len(recs) : HasNumber(recs[i], field, sch)}

\* rankable.filter(...) of the compound category filter
FilteredSet(recs, rankable, categoryFilter, sch) ==
    IF categoryFilter = NoCategoryFilter THEN {}
    ELSE {i \in rankable :
              HasValue(recs[i], categoryFilter.field, categoryFilter.value, sch)}

\* if (filtered.length > 0) rankable = filtered
FilteredOr(filtered, rankable) == IF filtered # {} THEN filtered ELSE rankable

RankableFrom(recs, topN, sch, rankable) ==
    IndicesIn(Len(recs),
              FilteredOr(FilteredSet(recs, rankable, topN.categoryFilter, sch), rankable))

\* rankable of the Top-N branch: indices into recs, after the category filter
Rankable(recs, topN, sch) == RankableFrom(recs, topN, sch, RankableSet(recs, topN.field, sch))

\* rankable.sort((a, b) => ...): the rows in the order of their parsed numbers
SortedBy(rows, recs, field, desc, sch) ==
    Permute(rows, StableSort([k \in 1..Len(rows) |-> NumberAt(recs[rows[k]], field, sch)], desc))

\* rankable.sort(...).slice(0, topN.n): indices into recs
TopRecords(rankable, recs, topN, sch) ==
    Take(SortedBy(rankable, recs, topN.field, topN.order = "desc", sch), topN.n)

TopNResponse(rankable, recs, topN, sch) ==
    IF rankable = <<>>
    THEN [kind |-> "topN", found |-> FALSE, rows |-> <<>>, chart |-> NULL]
    ELSE [kind |-> "topN", found |-> TRUE, rows |-> TopRecords(rankable, recs, topN, sch),
          chart |-> "bar"]

execTopN(recs, topN, sch) == TopNResponse(Rankable(recs, topN, sch), recs, topN, sch)

\* gKey && rec[gKey]?.trim()
GroupKeyed(rec, gKey) == gKey # NULL /\ Trim(Get(rec, gKey)) # ""

\* The rows the Group-By loop pushes a value for, with group value and number
GroupMembers(recs, groupBy, sch) ==
    {i \in 1..Len(recs) :
        /\ GroupKeyed(recs[i], findField(recs[i], groupBy.groupField, sch))
        /\ groupBy.aggType # "count" => HasNumber(recs[i], groupBy.metricField, sch)}

GroupValue(rec, field, sch) == Trim(Get(rec, findField(rec, field, sch)))

\* Object.keys(groups)
GroupKeys(members, recs, groupBy, sch) ==
    KeysOf([k \in 1..Len(members) |-> GroupValue(recs[members[k]], groupBy.groupField, sch)])

\* n!, a common multiple of every group size: averages are compared as n! * avg
RECURSIVE Factorial(_)
Factorial(n) == IF n <= 1 THEN 1 ELSE n * Factorial(n - 1)

SeqMax(s) == SetMax(Range(s))

SeqMin(s) == SetMin(Range(s))

\* The rows of group g
GroupRows(members, recs, field, g, sch) ==
    FilterSeq(members, {i \in Range(members) : GroupValue(recs[i], field, sch) = g})

\* groups[gVal]: the numbers pushed for the rows of a group
GroupVals(rows, recs, groupBy, sch) ==
    [k \in 1..Len(rows) |->
        IF groupBy.aggType = "count" THEN 1
        ELSE NumberAt(recs[rows[k]], groupBy.metricField, sch)]

\* score of a group; an average is kept as scale * avg, scale a multiple of
\* every group size
Score(vals, aggType, scale) ==
    CASE aggType = "sum" -> SumSeq(vals)
      [] aggType = "avg" -> (SumSeq(vals) * scale) \div Len(vals)
      [] aggType = "max" -> SeqMax(vals)
      [] aggType = "min" -> SeqMin(vals)
      [] OTHER -> Len(vals)

GroupResult(g, rows, recs, groupBy, sch) ==
    [group |-> g,
     score |-> Score(GroupVals(rows, recs, groupBy, sch), groupBy.aggType,
                     Factorial(Len(recs))),
     rows |-> rows, count |-> Len(rows)]

\* Object.entries(groups).map(...)
GroupResults(keys, members, recs, groupBy, sch) ==
    [k \in 1..Len(keys) |->
        GroupResult(keys[k], GroupRows(members, recs, groupBy.groupField, keys[k], sch),
                    recs, groupBy, sch)]

\* .sort((a, b) => b.score - a.score), or a.score - b.score
SortByScore(results, desc) ==
    Permute(results, StableSort([k \in 1..Len(results) |-> results[k].score], desc))

GroupByResponse(results) ==
    IF results = <<>>
    THEN [kind |-> "groupBy", found |-> FALSE, results |-> <<>>, chart |-> NULL]
    ELSE [kind |-> "groupBy", found |-> TRUE, results |-> SortByScore(results, TRUE),
          chart |-> "bar"]

GroupByOf(members, recs, groupBy, sch) ==
    GroupByResponse(GroupResults(GroupKeys(members, recs, groupBy, sch),
                                 members, recs, groupBy, sch))

execGroupBy(recs, groupBy, sch) ==
    GroupByOf(IndicesIn(Len(recs), GroupMembers(recs, groupBy, sch)), recs, groupBy, sch)

\* The rows with a non-empty value in the listed field
ListMembers(recs, field, sch) ==
    {j \in 1..Len(recs) : GroupKeyed(recs[j], findField(recs[j], field, sch))}

ListAllResponse(seen) ==
    [kind |-> "listAll", found |-> seen # {}, values |-> seen, chart |-> NULL]

\* The distinct trimmed values of the List-All branch (a Set, then sorted)
execListAll(recs, listAll, sch) ==
    ListAllResponse({GroupValue(recs[i], listAll.field, sch) :
                         i \in ListMembers(recs, listAll.field, sch)})

\* The rows a grouping loop pushes a value for: a group value and, unless
\* the metric is the row count, a number in the metric field
RankMembers(recs, groupRank, sch) ==
    {i \in 1..Len(recs) :
        /\ GroupKeyed(recs[i], findField(recs[i], groupRank.groupField, sch))
        /\ groupRank.metric # "count" => HasNumber(recs[i], groupRank.metric, sch)}

RankKeys(members, recs, field, sch) ==
    KeysOf([k \in 1..Len(members) |-> GroupValue(recs[members[k]], field, sch)])

RankVals(rows, recs, metric, sch) ==
    [k \in 1..Len(rows) |->
        IF metric = "count" THEN 1 ELSE NumberAt(recs[rows[k]], metric, sch)]

RankedGroup(g, rows, recs, metric, sch) ==
    [group |-> g,
     score |-> Score(RankVals(rows, recs, metric, sch), "avg", Factorial(Len(recs))),
     count |-> Len(rows)]

RankedGroups(keys, members, recs, groupRank, sch) ==
    [k \in 1..Len(keys) |->
        RankedGroup(keys[k], GroupRows(members, recs, groupRank.groupField, keys[k], sch),
                    recs, groupRank.metric, sch)]

GroupRankAnswer(ranked) ==
    [kind |-> "groupRank", found |-> TRUE, ranked |-> ranked,
     answer |-> ranked[1].group, chart |-> "bar"]

GroupRankResponse(ranked, desc) ==
    IF ranked = <<>>
    THEN [kind |-> "groupRank", found |-> FALSE, ranked |-> <<>>, answer |-> NULL,
          chart |-> NULL]
    ELSE GroupRankAnswer(SortByScore(ranked, desc))

GroupRankOf(members, recs, groupRank, sch) ==
    GroupRankResponse(
        RankedGroups(RankKeys(members, recs, groupRank.groupField, sch),
                     members, recs, groupRank, sch),
        groupRank.order = "desc")

\* Group-Rank: the score of a group is the mean of its values, kept as n! * mean
execGroupRank(recs, groupRank, sch) ==
    GroupRankOf(IndicesIn(Len(recs), RankMembers(recs, groupRank, sch)), recs, groupRank, sch)

\* op === '<' ? num < value : num > value
Compares(num, op, value) == IF op = "<" THEN num < value ELSE num > value

FilterResponse(matched) ==
    [kind |-> "filter", found |-> matched # <<>>, rows |-> matched,
     listed |-> Take(matched, 10), chart |-> NULL]

\* Threshold filter: the matched rows, of which the first 10 are listed
execFilter(recs, filter, sch) ==
    FilterResponse(IndicesIn(Len(recs),
        {i \in 1..Len(recs) :
            /\ HasNumber(recs[i], filter.field, sch)
            /\ Compares(NumberAt(recs[i], filter.field, sch), filter.op, filter.value)}))

\* v === targetVal.toLowerCase() || parseFloat(v) === parseFloat(targetVal)
SameValue(v, target) ==
    \/ v = ToLowerCase(target)
    \/ ~ParseFloatIsNaN(v) /\ ~ParseFloatIsNaN(target) /\ ParseFloat(v) = ParseFloat(target)

CondHit(rec, key, condCount) ==
    /\ key # NULL
    /\ IF condCount.op = "nonempty" THEN Len(Trim(Get(rec, key))) > 0
       ELSE SameValue(ToLowerCase(Trim(Get(rec, key))), condCount.value)

CondCountResponse(rows) ==
    [kind |-> "condCount", found |-> TRUE, rows |-> rows, count |-> Len(rows),
     chart |-> NULL]

execConditionalCount(recs, condCount, sch) ==
    CondCountResponse(IndicesIn(Len(recs),
        {i \in 1..Len(recs) :
            CondHit(recs[i], findField(recs[i], condCount.field, sch), condCount)}))

\* The parsed numbers of the field in the given rows
ValuesOf(rows, recs, field, sch) ==
    [k \in 1..Len(rows) |-> NumberAt(recs[rows[k]], field, sch)] \o <<>>

FilteredAggValues(valued, filtered, values, aggType) ==
    IF values = <<>>
    THEN [kind |-> "filteredAgg", found |-> FALSE, rows |-> filtered, sum |-> 0,
          n |-> 0, chart |-> NULL]
    ELSE [kind |-> "filteredAgg", found |-> TRUE, rows |-> valued,
          sum |-> SumSeq(values),
          n |-> IF aggType = "sum" THEN 1 ELSE Len(values),
          chart |-> NULL]

FilteredAggValued(valued, filtered, recs, filteredAgg, sch) ==
    FilteredAggValues(valued, filtered,
                      ValuesOf(valued, recs, filteredAgg.metricField, sch),
                      filteredAgg.aggType)

FilteredAggResponse(filtered, recs, filteredAgg, sch) ==
    IF filtered = <<>>
    THEN [kind |-> "filteredAgg", found |-> FALSE, rows |-> <<>>, sum |-> 0, n |-> 0,
          chart |-> NULL]
    ELSE IF filteredAgg.aggType = "count"
    THEN [kind |-> "filteredAgg", found |-> TRUE, rows |-> filtered,
          sum |-> Len(filtered), n |-> 1, chart |-> NULL]
    ELSE FilteredAggValued(
             FilterSeq(filtered,
                 {i \in Range(filtered) : HasNumber(recs[i], filteredAgg.metricField, sch)}),
             filtered, recs, filteredAgg, sch)

\* Filtered aggregation: an average is kept as the pair sum, n
execFilteredAgg(recs, filteredAgg, sch) ==
    FilteredAggResponse(
        IndicesIn(Len(recs),
            {i \in 1..Len(recs) :
                HasValue(recs[i], filteredAgg.filterField, filteredAgg.filterValue, sch)}),
        recs, filteredAgg, sch)

\* The numbers an aggregation reads: parseFloat of the value findField gives
NumericRows(recs, field, sch) ==
    IndicesIn(Len(recs), {i \in 1..Len(recs) : HasNumber(recs[i], field, sch)})

\* The first row with the strictly smallest (largest) number of the field
ExtremeRow(recs, rows, field, sch, wantMin) ==
    CHOOSE i \in Range(rows) :
        /\ \A j \in Range(rows) :
               IF wantMin
               THEN NumberAt(recs[i], field, sch) <= NumberAt(recs[j], field, sch)
               ELSE NumberAt(recs[i], field, sch) >= NumberAt(recs[j], field, sch)
        /\ \A j \in Range(rows) :
               NumberAt(recs[j], field, sch) = NumberAt(recs[i], field, sch) => i <= j

\* rec[a] ?? rec['title'] ?? rec['name'] ?? null
TitleAt(rec, titleKey) ==
    IF HasKey(rec, titleKey) THEN Get(rec, titleKey)
    ELSE IF HasKey(rec, "title") THEN Get(rec, "title")
    ELSE IF HasKey(rec, "name") THEN Get(rec, "name")
    ELSE NULL

\* extremeRec[titleKey] ?? extremeRec['title'] ?? extremeRec['name'] ?? null
RecordTitle(rec, sch) == TitleAt(rec, Coalesce(sch.titleField, "title"))

AggNone(type) ==
    [kind |-> "aggregate", type |-> type, found |-> FALSE, rows |-> <<>>,
     sum |-> 0, n |-> 0, title |-> NULL, chart |-> NULL]

AggSome(type, rs, v, n, title) ==
    [kind |-> "aggregate", type |-> type, found |-> TRUE,
     rows |-> rs, sum |-> v, n |-> n, title |-> title, chart |-> NULL]

\* key && rec[key]
SeenRows(recs, field, sch) ==
    IndicesIn(Len(recs),
        {i \in 1..Len(recs) : Truthy(recs[i], findField(recs[i], field, sch))})

AggCountDistinct(seenRows, recs, agg, sch) ==
    AggSome(agg.type, seenRows,
            Cardinality({GroupValue(recs[i], agg.field, sch) : i \in Range(seenRows)}),
            1, NULL)

AggExtreme(i, recs, agg, sch) ==
    AggSome(agg.type, <<i>>, NumberAt(recs[i], agg.field, sch), 1, RecordTitle(recs[i], sch))

AggValues(rows, values, type) ==
    CASE type = "avg" -> AggSome(type, rows, SumSeq(values), Len(values), NULL)
      [] type = "sum" -> AggSome(type, rows, SumSeq(values), 1, NULL)
      [] type = "min" -> AggSome(type, rows, SeqMin(values), 1, NULL)
      [] type = "max" -> AggSome(type, rows, SeqMax(values), 1, NULL)
      [] OTHER -> [AggSome(type, rows, 0, 0, NULL) EXCEPT !.found = FALSE]

AggOver(rows, recs, agg, sch) ==
    IF rows = <<>> THEN AggNone(agg.type)
    ELSE IF agg.type \in {"findRecordMin", "findRecordMax"}
    THEN AggExtreme(ExtremeRow(recs, rows, agg.field, sch, agg.type = "findRecordMin"),
                    recs, agg, sch)
    ELSE AggValues(rows, ValuesOf(rows, recs, agg.field, sch), agg.type)

\* Generic aggregation: an average is kept as the pair sum, n
execAggregate(recs, agg, sch) ==
    IF agg.type = "count"
    THEN AggSome(agg.type, IndicesIn(Len(recs), 1..Len(recs)), Len(recs), 1, NULL)
    ELSE IF agg.type = "countDistinct"
    THEN AggCountDistinct(SeenRows(recs, agg.field, sch), recs, agg, sch)
    ELSE AggOver(NumericRows(recs, agg.field, sch), recs, agg, sch)

\* The rows the Trend loop pushes a value for
TrendMembers(recs, trend, sch) ==
    IndicesIn(Len(recs),
        {i \in 1..Len(recs) :
            /\ findField(recs[i], trend.metricField, sch) # NULL
            /\ HasNumber(recs[i], trend.timeField, sch)
            /\ HasNumber(recs[i], trend.metricField, sch)})

\* bucket of a row with time number rawTime and time text raw
BucketOf(rawTime, raw, period) ==
    IF period = "decade" THEN ToString((rawTime \div 10) * 10) \o "s"
    ELSE IF period = "month" THEN SubSeq(raw, 1, Min2(7, Len(raw)))
    ELSE ToString(rawTime)

\* The bucket of a row: the decade, the first 7 characters, or the year
Bucket(rec, trend, sch) ==
    BucketOf(NumberAt(rec, trend.timeField, sch),
             Trim(Get(rec, findField(rec, trend.timeField, sch))), trend.period)

\* Object.keys(buckets)
BucketKeys(members, recs, trend, sch) ==
    KeysOf([k \in 1..Len(members) |-> Bucket(recs[members[k]], trend, sch)])

\* The order of the characters of a period label under localeCompare
Collation == "_-0123456789abcdefghijklmnopqrstuvwxyz"

CharRank(c) ==
    IF \E i \in 1..Len(Collation) : CharAt(Collation, i) = c
    THEN CHOOSE i \in 1..Len(Collation) : CharAt(Collation, i) = c
    ELSE 0

\* a.localeCompare(b) < 0
RECURSIVE StrLess(_, _)
StrLess(a, b) ==
    IF b = "" THEN FALSE
    ELSE IF a = "" THEN TRUE
    ELSE IF CharAt(a, 1) = CharAt(b, 1)
         THEN StrLess(SubSeq(a, 2, Len(a)), SubSeq(b, 2, Len(b)))
    ELSE CharRank(CharAt(a, 1)) < CharRank(CharAt(b, 1))

BucketRows(members, recs, trend, b, sch) ==
    FilterSeq(members, {i \in Range(members) : Bucket(recs[i], trend, sch) = b})

TrendPoint(b, rows, recs, trend, sch) ==
    [period |-> b,
     value |-> Score(ValuesOf(rows, recs, trend.metricField, sch), trend.aggType,
                     Factorial(Len(recs))),
     count |-> Len(rows)]

TrendPoints(keys, members, recs, trend, sch) ==
    [k \in 1..Len(keys) |->
        TrendPoint(keys[k], BucketRows(members, recs, trend, keys[k], sch), recs, trend, sch)]

\* .sort((a, b) => a.period.localeCompare(b.period))
SortByPeriod(points) ==
    Permute(points,
        StableSort([k \in 1..Len(points) |->
                       Cardinality({j \in 1..Len(points) :
                                        StrLess(points[j].period, points[k].period)})],
                   FALSE))

\* The period with the greatest value, the first of them on a tie
BestPeriod(trendData) == SortByScore([k \in 1..Len(trendData) |->
                             [score |-> trendData[k].value,
                              period |-> trendData[k].period]], TRUE)[1].period

TrendAnswer(trendData) ==
    [kind |-> "trend", found |-> TRUE, points |-> trendData,
     best |-> BestPeriod(trendData), chart |-> "line"]

TrendResponse(points) ==
    IF points = <<>>
    THEN [kind |-> "trend", found |-> FALSE, points |-> <<>>, best |-> NULL,
          chart |-> NULL]
    ELSE TrendAnswer(SortByPeriod(points))

TrendOf(members, recs, trend, sch) ==
    TrendResponse(TrendPoints(BucketKeys(members, recs, trend, sch),
                              members, recs, trend, sch))

\* Trend: the value of a period is its sum, or its mean kept as n! * mean
execTrend(recs, trend, sch) == TrendOf(TrendMembers(recs, trend, sch), recs, trend, sch)

\* [...vals].sort((a, b) => a - b)
SortedAsc(vals) == Permute(vals, StableSort(vals, FALSE))

\* A fence test that also flags a value lying on a fence
OnOrBeyondFence(val, q1, q3) ==
    \/ 2 * val <= 2 * q1 - 3 * (q3 - q1)
    \/ 2 * val >= 2 * q3 + 3 * (q3 - q1)

\* val < q1 - 1.5 * iqr || val > q3 + 1.5 * iqr, compared doubled
IsOutlier(val, q1, q3) ==
    \/ 2 * val < 2 * q1 - 3 * (q3 - q1)
    \/ 2 * val > 2 * q3 + 3 * (q3 - q1)

OutlierAnswer(outliers, q1, q3) ==
    IF outliers = <<>>
    THEN [kind |-> "outliers", enough |-> TRUE, found |-> FALSE, rows |-> <<>>,
          q1 |-> ToString(q1), q3 |-> ToString(q3), chart |-> NULL]
    ELSE [kind |-> "outliers", enough |-> TRUE, found |-> TRUE, rows |-> outliers,
          q1 |-> ToString(q1), q3 |-> ToString(q3), chart |-> "bar"]

OutliersBetween(recVals, recs, field, sch, q1, q3) ==
    OutlierAnswer(FilterSeq(recVals,
                      {i \in Range(recVals) :
                          IsOutlier(NumberAt(recs[i], field, sch), q1, q3)}),
                  q1, q3)

OutliersOfSorted(recVals, recs, field, sch, sorted) ==
    OutliersBetween(recVals, recs, field, sch,
                    sorted[(Len(sorted) \div 4) + 1],
                    sorted[((3 * Len(sorted)) \div 4) + 1])

OutliersOf(recVals, recs, field, sch) ==
    IF Len(recVals) < 4
    THEN [kind |-> "outliers", enough |-> FALSE, found |-> FALSE, rows |-> <<>>,
          q1 |-> NULL, q3 |-> NULL, chart |-> NULL]
    ELSE OutliersOfSorted(recVals, recs, field, sch,
                          SortedAsc(ValuesOf(recVals, recs, field, sch)))

OutliersOn(recs, field, sch) == OutliersOf(NumericRows(recs, field, sch), recs, field, sch)

\* Outliers of the default rank field by the interquartile range
execOutliers(recs, sch) == OutliersOn(recs, defaultRankField(sch), sch)

\* ------------------------------------------------------------------------
\* Contextual field lookup and the schema shortcuts of POST
\* ------------------------------------------------------------------------

\* The words of fewer than n characters
WordsShorterThan(q, n) == {q[i] : i \in {j \in 1..Len(q) : Len(q[j]) < n}}

\* The first word of at least 3 characters that resolves to a numeric field
CtxMetric(q, sch) == FirstNumericWord(q, WordsShorterThan(q, 3), sch)

\* [...history].reverse().find(h => h.role === 'assistant')?.content ?? ''
RECURSIVE LastAnswer(_)
LastAnswer(h) ==
    IF h = <<>> THEN ""
    ELSE IF h[Len(h)].role = "assistant" THEN h[Len(h)].content
    ELSE LastAnswer(SubSeq(h, 1, Len(h) - 1))

RECURSIVE FirstEntityValue(_, _)
FirstEntityValue(vals, answer) ==
    IF vals = <<>> THEN NULL
    ELSE IF Len(Head(vals)) >= 3 /\ Includes(ToLowerCase(answer), ToLowerCase(Head(vals)))
         THEN Head(vals)
    ELSE FirstEntityValue(Tail(vals), answer)

\* schema0.topValues[field] ?? []
TopValuesOf(sch, field) == IF field \in DOMAIN sch.topValues THEN sch.topValues[field] ELSE <<>>

\* The loop outer0: the first field, and its first top value, that the last
\* answer names
RECURSIVE CtxEntity(_, _, _)
CtxEntity(fields, sch, answer) ==
    IF fields = <<>> THEN NoCategoryFilter
    ELSE FilterOr(Head(fields), FirstEntityValue(TopValuesOf(sch, Head(fields)), answer),
                  CtxEntity(Tail(fields), sch, answer))

SearchFields(sch) ==
    IF sch.titleField # NULL THEN <<sch.titleField>> \o sch.categoricalFields
    ELSE sch.categoricalFields

\* [...globalVals].sort((a, b) => b - a).indexOf(total) + 1
RankOf(sortedDesc, total) == SetMinOr0({k \in 1..Len(sortedDesc) : sortedDesc[k] = total})

CtxAnswer(numRows, entity, ctxMetric, total, globalVals) ==
    [kind |-> "contextual", found |-> TRUE, rows |-> numRows,
     entity |-> entity.value, metric |-> ctxMetric, total |-> total,
     rank |-> RankOf(Permute(globalVals, StableSort(globalVals, TRUE)), total),
     of |-> Len(globalVals), chart |-> NULL]

CtxNumbers(numRows, recs, sch, entity, ctxMetric) ==
    IF numRows = <<>> THEN NoResponse
    ELSE CtxAnswer(numRows, entity, ctxMetric,
                   SumSeq(ValuesOf(numRows, recs, ctxMetric, sch)),
                   ValuesOf(NumericRows(recs, ctxMetric, sch), recs, ctxMetric, sch))

CtxMatched(matched0, recs, sch, entity, ctxMetric) ==
    IF matched0 = <<>> THEN NoResponse
    ELSE CtxNumbers(FilterSeq(matched0,
                        {i \in Range(matched0) : HasNumber(recs[i], ctxMetric, sch)}),
                    recs, sch, entity, ctxMetric)

CtxEntityRows(recs, sch, entity, ctxMetric) ==
    IF entity = NoCategoryFilter THEN NoResponse
    ELSE CtxMatched(IndicesIn(Len(recs),
                        {i \in 1..Len(recs) :
                            HasValue(recs[i], entity.field, entity.value, sch)}),
                    recs, sch, entity, ctxMetric)

CtxLookup(h, recs, sch, ctxMetric) ==
    IF ctxMetric = NULL THEN NoResponse
    ELSE CtxEntityRows(recs, sch, CtxEntity(SearchFields(sch), sch, LastAnswer(h)), ctxMetric)

CtxWith(q, h, recs, sch) == CtxLookup(h, recs, sch, CtxMetric(q, sch))

\* The contextual answer, or NoResponse when the lookup falls through
ContextualAnswer(q, h, recs) ==
    IF ~HasKw(q, ContextBackRef) \/ h = <<>> THEN NoResponse
    ELSE CtxWith(q, h, recs, buildSchema(recs))

\* The question asks about the dataset as a whole
isDatasetInfo(q) ==
    \/ KwThenWord(q, InfoLead, TRUE, 20, DataWords, TRUE)
    \/ HasKw(q, AboutDataset)
    \/ KwThenWord(q, {<<"what", "is", "this">>}, TRUE, 20, DataWords, TRUE)

ColumnWords == {<<"column">>, <<"field">>, <<"header">>, <<"attribute">>, <<"feature">>,
                <<"columns">>, <<"fields">>, <<"headers">>, <<"attributes">>,
                <<"features">>}

\* The schema query the question makes: "list", "count" or NULL
SchemaQueryKind(q) ==
    IF ~HasKw(q, ColumnWords) THEN NULL
    ELSE IF HasKw(q, {<<"what", "are">>, <<"list">>, <<"show">>, <<"display">>}) THEN "list"
    ELSE IF HasKw(q, {<<"how", "many">>, <<"count">>, <<"number", "of">>}) THEN "count"
    ELSE NULL

\* ------------------------------------------------------------------------
\* The request handler POST as a state machine
\* ------------------------------------------------------------------------

Detectors == {"listAll", "topN", "groupBy", "groupRank", "condCount", "filteredAgg",
              "agg", "filter", "trend", "outliers"}

\* The intents before the chain has run
NoIntents ==
    [listAll |-> NoListAll, topN |-> NoTopN, groupBy |-> NoGroupBy,
     groupRank |-> NoGroupRank, condCount |-> NoConditionalCount,
     filteredAgg |-> NoFilteredAgg, agg |-> NoAggregate, filter |-> NoFilter,
     trend |-> NoTrend, hasOutlierQuery |-> FALSE]

\* The detectors run so far and what they returned
Detected(in, name, intent) ==
    [intents |-> [in.intents EXCEPT ![name] = intent], ran |-> in.ran \cup {name}]

NoneBeforeGroupRank(in) == ~in.intents.topN.isTopN /\ ~in.intents.groupBy.isGroupBy

NoneBeforeCondCount(in) == NoneBeforeGroupRank(in) /\ ~in.intents.groupRank.isGroupRank

NoneBeforeFilteredAgg(in) ==
    NoneBeforeCondCount(in) /\ ~in.intents.condCount.isConditionalCount

NoneBeforeAgg(in) == NoneBeforeFilteredAgg(in) /\ ~in.intents.filteredAgg.isFilteredAgg

NoneBeforeFilter(in) == NoneBeforeAgg(in) /\ ~in.intents.agg.isAggregate

\* the condition of trend does not name condCount
NoneBeforeTrend(in) ==
    /\ NoneBeforeCondCount(in)
    /\ ~in.intents.filteredAgg.isFilteredAgg
    /\ ~in.intents.agg.isAggregate
    /\ ~in.intents.filter.isFilter

NoneBeforeOutliers(in) == NoneBeforeTrend(in) /\ ~in.intents.trend.isTrend

\* A chain whose first detector is never consulted
TopNStepSkipped(in, q, sch) == in

TopNStep(in, q, sch) == Detected(in, "topN", detectTopN(q, sch))

GroupByStep(in, q, sch) ==
    IF ~in.intents.topN.isTopN THEN Detected(in, "groupBy", detectGroupBy(q, sch)) ELSE in

GroupRankStep(in, q, sch) ==
    IF NoneBeforeGroupRank(in) THEN Detected(in, "groupRank", detectGroupRank(q, sch)) ELSE in

CondCountStep(in, q, sch) ==
    IF NoneBeforeCondCount(in)
    THEN Detected(in, "condCount", detectConditionalCount(q, sch)) ELSE in

FilteredAggStep(in, q, sch) ==
    IF NoneBeforeFilteredAgg(in)
    THEN Detected(in, "filteredAgg", detectFilteredAgg(q, sch)) ELSE in

AggStep(in, q, sch) ==
    IF NoneBeforeAgg(in) THEN Detected(in, "agg", detectAggregation(q, sch)) ELSE in

FilterStep(in, q, sch) ==
    IF NoneBeforeFilter(in) THEN Detected(in, "filter", detectFilter(q, sch)) ELSE in

TrendStep(in, q, sch) ==
    IF NoneBeforeTrend(in) THEN Detected(in, "trend", detectTrend(q, sch)) ELSE in

OutliersStep(in, q) ==
    IF NoneBeforeOutliers(in)
    THEN [intents |-> [in.intents EXCEPT !.hasOutlierQuery = detectOutliers(q)],
          ran |-> in.ran \cup {"outliers"}]
    ELSE in

\* The detector chain of POST: a detector runs when none of the detectors
\* named in its condition has claimed the question
DetectChain(in, q, sch) ==
    OutliersStep(
      TrendStep(
        FilterStep(
          AggStep(
            FilteredAggStep(
              CondCountStep(
                GroupRankStep(
                  GroupByStep(
                    TopNStep(in, q, sch), q, sch), q, sch), q, sch), q, sch), q, sch),
          q, sch), q, sch), q)

Respond(r) == response' = r /\ pc' = "done"

\* if (!message || !fileId) return 400
Validate ==
    /\ pc = "validate"
    /\ IF message = <<>>
       THEN Respond([kind |-> "badRequest"])
       ELSE pc' = "contextual" /\ UNCHANGED response
    /\ UNCHANGED <<stream, other, message, history, store, records, schema, ran, intents>>

\* if (answer) return it, else go on to the follow-up check
AnswerOr(answer, next) ==
    IF answer # NoResponse
    THEN Respond(answer)
    ELSE pc' = next /\ UNCHANGED response

\* The contextual field lookup: it loads the rows itself and answers from them
ContextualLookup ==
    /\ pc = "contextual"
    /\ AnswerOr(ContextualAnswer(message, history, store), "followUp")
    /\ UNCHANGED <<stream, other, message, history, store, records, schema, ran, intents>>

\* A request path without the follow-up check
FollowUpSkipped ==
    /\ pc = "followUp"
    /\ pc' = "gate"
    /\ UNCHANGED <<stream, other, message, history, store, records, schema, ran, intents, response>>

\* The follow-up path: the model is given the history and the message only
FollowUp ==
    /\ pc = "followUp"
    /\ IF isFollowUp(message, Len(history))
       THEN Respond([kind |-> "followUp", found |-> TRUE, rows |-> <<>>, chart |-> NULL])
       ELSE pc' = "gate" /\ UNCHANGED response
    /\ UNCHANGED <<stream, other, message, history, store, records, schema, ran, intents>>

\* A gate that lets every question through to the detector chain
GateOpen ==
    /\ pc = "gate"
    /\ records' = store
    /\ schema' = buildSchema(store)
    /\ pc' = "datasetInfo"
    /\ UNCHANGED <<stream, other, message, history, store, ran, intents, response>>

\* A gate that adds the loaded rows to the rows of the request before
GateAppends ==
    /\ pc = "gate"
    /\ IF isStructuralQuery(message)
       THEN /\ records' = records \o store
            /\ schema' = buildSchema(records \o store)
            /\ pc' = "datasetInfo"
       ELSE /\ pc' = "rag"
            /\ UNCHANGED <<records, schema>>
    /\ UNCHANGED <<stream, other, message, history, store, ran, intents, response>>

\* The structural gate: a structural-looking question loads the rows and
\* builds the schema
StructuralGate ==
    /\ pc = "gate"
    /\ IF isStructuralQuery(message)
       THEN /\ records' = store
            /\ schema' = buildSchema(store)
            /\ pc' = "datasetInfo"
       ELSE /\ pc' = "rag"
            /\ UNCHANGED <<records, schema>>
    /\ UNCHANGED <<stream, other, message, history, store, ran, intents, response>>

DatasetInfo ==
    /\ pc = "datasetInfo"
    /\ IF isDatasetInfo(message)
       THEN Respond([kind |-> "datasetInfo", found |-> TRUE, rows |-> <<>>,
                     count |-> Len(records), fields |-> schema.allFields, chart |-> NULL])
       ELSE pc' = "schemaQuery" /\ UNCHANGED response
    /\ UNCHANGED <<stream, other, message, history, store, records, schema, ran, intents>>

SchemaQuery ==
    /\ pc = "schemaQuery"
    /\ IF SchemaQueryKind(message) # NULL
       THEN Respond([kind |-> "schemaQuery", found |-> TRUE, rows |-> <<>>,
                     query |-> SchemaQueryKind(message), fields |-> schema.allFields,
                     count |-> Len(schema.allFields), chart |-> NULL])
       ELSE pc' = "listAll" /\ UNCHANGED response
    /\ UNCHANGED <<stream, other, message, history, store, records, schema, ran, intents>>

ListAllWith(listAll) ==
    /\ ran' = ran \cup {"listAll"}
    /\ intents' = [intents EXCEPT !.listAll = listAll]
    /\ IF listAll.isListAll
       THEN Respond(execListAll(records, listAll, schema))
       ELSE pc' = "detect" /\ UNCHANGED response

ListAll ==
    /\ pc = "listAll"
    /\ ListAllWith(detectListAll(message, schema))
    /\ UNCHANGED <<stream, other, message, history, store, records, schema>>

Chained(chain) == intents' = chain.intents /\ ran' = chain.ran

Detect ==
    /\ pc = "detect"
    /\ Chained(DetectChain([intents |-> intents, ran |-> ran], message, schema))
    /\ pc' = "execute"
    /\ UNCHANGED <<stream, other, message, history, store, records, schema, response>>

Unchanged == UNCHANGED <<stream, other, message, history, store, records, schema, ran, intents>>

TopN ==
    /\ pc = "execute"
    /\ intents.topN.isTopN
    /\ Respond(execTopN(records, intents.topN, schema))
    /\ Unchanged

GroupBy ==
    /\ pc = "execute"
    /\ ~intents.topN.isTopN
    /\ intents.groupBy.isGroupBy
    /\ Respond(execGroupBy(records, intents.groupBy, schema))
    /\ Unchanged

GroupRank ==
    /\ pc = "execute"
    /\ ~intents.topN.isTopN /\ ~intents.groupBy.isGroupBy
    /\ intents.groupRank.isGroupRank
    /\ Respond(execGroupRank(records, intents.groupRank, schema))
    /\ Unchanged

NoneUpTo3 ==
    ~intents.topN.isTopN /\ ~intents.groupBy.isGroupBy /\ ~intents.groupRank.isGroupRank

Filter ==
    /\ pc = "execute"
    /\ NoneUpTo3
    /\ intents.filter.isFilter
    /\ Respond(execFilter(records, intents.filter, schema))
    /\ Unchanged

ConditionalCount ==
    /\ pc = "execute"
    /\ NoneUpTo3 /\ ~intents.filter.isFilter
    /\ intents.condCount.isConditionalCount
    /\ Respond(execConditionalCount(records, intents.condCount, schema))
    /\ Unchanged

NoneUpTo5 ==
    NoneUpTo3 /\ ~intents.filter.isFilter /\ ~intents.condCount.isConditionalCount

FilteredAgg ==
    /\ pc = "execute"
    /\ NoneUpTo5
    /\ intents.filteredAgg.isFilteredAgg
    /\ Respond(execFilteredAgg(records, intents.filteredAgg, schema))
    /\ Unchanged

Aggregation ==
    /\ pc = "execute"
    /\ NoneUpTo5 /\ ~intents.filteredAgg.isFilteredAgg
    /\ intents.agg.isAggregate
    /\ Respond(execAggregate(records, intents.agg, schema))
    /\ Unchanged

NoneUpTo7 == NoneUpTo5 /\ ~intents.filteredAgg.isFilteredAgg /\ ~intents.agg.isAggregate

Trend ==
    /\ pc = "execute"
    /\ NoneUpTo7
    /\ intents.trend.isTrend
    /\ Respond(execTrend(records, intents.trend, schema))
    /\ Unchanged

Outliers ==
    /\ pc = "execute"
    /\ NoneUpTo7 /\ ~intents.trend.isTrend
    /\ intents.hasOutlierQuery
    /\ Respond(execOutliers(records, schema))
    /\ Unchanged

\* Structural detected but no path matched: fall through to retrieval
FallThrough ==
    /\ pc = "execute"
    /\ NoneUpTo7 /\ ~intents.trend.isTrend /\ ~intents.hasOutlierQuery
    /\ pc' = "rag"
    /\ UNCHANGED <<stream, other, message, history, store, records, schema, ran, intents, response>>

\* The standard retrieval path: embedding, similarity search, generation
Retrieval ==
    /\ pc = "rag"
    /\ Respond([kind |-> "rag", found |-> TRUE, rows |-> <<>>, chart |-> NULL])
    /\ Unchanged

Next ==
    \/ Validate
    \/ ContextualLookup
    \/ FollowUp
    \/ StructuralGate
    \/ DatasetInfo
    \/ SchemaQuery
    \/ ListAll
    \/ Detect
    \/ TopN
    \/ GroupBy
    \/ GroupRank
    \/ Filter
    \/ ConditionalCount
    \/ FilteredAgg
    \/ Aggregation
    \/ Trend
    \/ Outliers
    \/ FallThrough
    \/ Retrieval

\* ------------------------------------------------------------------------
\* Requests: questions, conversation histories and stored rows
\* ------------------------------------------------------------------------

Row(name, genre, rating, count, year) ==
    <<(<<"name", name>>), (<<"genre", genre>>)>>
    \o (IF rating # "" THEN <<(<<"rating", rating>>)>> ELSE <<>>)
    \o (IF count # "" THEN <<(<<"rating_count", count>>)>> ELSE <<>>)
    \o (IF year # "" THEN <<(<<"year", year>>)>> ELSE <<>>)

\* A table of films; the second row has no rating, the fifth neither a rating
\* nor a rating count
Films ==
    <<Row("Jaws", "Crime", "8", "50", "2001"),
      Row("Heat", "Drama", "", "70", "2002"),
      Row("Up", "Crime", "8", "", "2002"),
      Row("Ran", "Drama", "7", "", "2001"),
      Row("Elf", "Comedy", "", "", "2003")>>

\* A table without a numeric column
People ==
    <<(<<(<<"name", "Ann">>), (<<"city", "Oslo">>)>>),
      (<<(<<"name", "Bob">>), (<<"city", "Rome">>)>>),
      (<<(<<"name", "Cy">>), (<<"city", "Rome">>)>>)>>

Datasets == {Films, People, <<>>}

PriorTurn ==
    <<[role |-> "user", content |-> "top 3 by rating"],
      [role |-> "assistant", content |-> "1. Jaws (rating: 8)"]>>

Histories == {<<>>, PriorTurn}

Leads ==
    {<<>>, <<"top", "3">>, <<"worst", "3">>, <<"list", "all">>, <<"how", "many">>,
     <<"total">>, <<"average">>, <<"what", "about">>, <<"tell", "me", "about">>,
     <<"show">>, <<"best">>, <<"most", "common">>, <<"why">>}

Mids ==
    {<<>>, <<"rating">>, <<"genre">>, <<"crime">>, <<"comedy">>, <<"this", "dataset">>,
     <<"columns">>, <<"age", "over", "5">>, <<"rating", "over", "7">>, <<"outliers">>,
     <<"this", "rating">>, <<"have", "rating">>, <<"year">>, <<"city">>}

Tails ==
    {<<>>, <<"by", "rating">>, <<"by", "genre">>, <<"per", "genre">>, <<"by", "year">>,
     <<"by", "foo">>, <<"in", "crime">>, <<"for", "each", "genre">>,
     <<"by", "each", "genre">>, <<"over", "time">>}

\* The longest question asked, in words
MaxWords == 5

Questions ==
    {q \in {l \o m \o t : l \in Leads, m \in Mids, t \in Tails} : Len(q) <= MaxWords}

\* No request is waiting
NoOther == [pc |-> "none"]

\* The response is not streamed
NoStream == [at |-> "none"]

InitWith(qs, hs, ds) ==
    /\ other = NoOther
    /\ stream = NoStream
    /\ pc = "validate"
    /\ message \in qs
    /\ history \in hs
    /\ store \in ds
    /\ records = <<>>
    /\ schema = EmptySchema
    /\ ran = {}
    /\ intents = NoIntents
    /\ response = NoResponse

Init == InitWith(Questions, Histories, Datasets)

Spec == Init /\ [][Next]_vars

\* ------------------------------------------------------------------------
\* Properties of the dispatcher
\* ------------------------------------------------------------------------

ExecutorKinds ==
    {"listAll", "topN", "groupBy", "groupRank", "condCount", "filteredAgg",
     "aggregate", "filter", "trend", "outliers"}

\* The first detector that claims question q, each detector asked on its own
\* in the order List-All, Top-N, Group-By, Group-Rank, Conditional-Count,
\* Filtered-Aggregate, Generic-Aggregate, Threshold-Filter, Trend, Outlier;
\* "rag" when none claims it
ClaimedBy(q, sch) ==
    IF detectListAll(q, sch).isListAll THEN "listAll"
    ELSE IF detectTopN(q, sch).isTopN THEN "topN"
    ELSE IF detectGroupBy(q, sch).isGroupBy THEN "groupBy"
    ELSE IF detectGroupRank(q, sch).isGroupRank THEN "groupRank"
    ELSE IF detectConditionalCount(q, sch).isConditionalCount THEN "condCount"
    ELSE IF detectFilteredAgg(q, sch).isFilteredAgg THEN "filteredAgg"
    ELSE IF detectAggregation(q, sch).isAggregate THEN "aggregate"
    ELSE IF detectFilter(q, sch).isFilter THEN "filter"
    ELSE IF detectTrend(q, sch).isTrend THEN "trend"
    ELSE IF detectOutliers(q) THEN "outliers"
    ELSE "rag"

\* The request is answered and its question had passed the structural gate
AnsweredPastGate ==
    /\ pc = "done"
    /\ response.kind \notin {"badRequest", "contextual", "followUp"}
    /\ isStructuralQuery(message)

\* C1, as the specification states it: every question that passes the
\* structural gate is answered by the executor of the first detector that
\* claims it in the fixed order, and by the retrieval fallback when no
\* detector claims it.
C1_FirstClaimerAnswers ==
    AnsweredPastGate => response.kind = ClaimedBy(message, schema)

\* C1, amended: a question that passes the structural gate is answered by the
\* dataset-info shortcut when it asks about the dataset, else by the column
\* shortcut when it asks about the columns, and only otherwise by the executor
\* of the first detector that claims it in the fixed order, or by the
\* retrieval fallback when no detector claims it.
C1_FirstClaimerAfterShortcuts ==
    AnsweredPastGate =>
        response.kind = IF isDatasetInfo(message) THEN "datasetInfo"
                        ELSE IF SchemaQueryKind(message) # NULL THEN "schemaQuery"
                        ELSE ClaimedBy(message, schema)

\* A question two detectors claim, answered by the executor of the earlier one
C1_Witness ==
    /\ AnsweredPastGate
    /\ response.kind = "groupBy"
    /\ detectAggregation(message, schema).isAggregate

\* C2: when isStructuralQuery is false for the question, no detector of the
\* chain is run and the response is not the result of a structural executor.
C2_GateBlocksChain ==
    ~isStructuralQuery(message) => ran = {} /\ response.kind \notin ExecutorKinds

\* A question a detector would claim is stopped at the gate and answered by
\* retrieval
C2_Witness ==
    /\ pc = "done"
    /\ response.kind = "rag"
    /\ ~isStructuralQuery(message)
    /\ ClaimedBy(message, buildSchema(store)) # "rag"

C4_FieldsAreColumns ==
    /\ intents.topN.isTopN => intents.topN.field \in Range(schema.allFields)
    /\ intents.filter.isFilter => intents.filter.field \in Range(schema.allFields)
    /\ intents.groupRank.isGroupRank =>
           /\ intents.groupRank.groupField \in Range(schema.allFields)
           /\ intents.groupRank.metric \in Range(schema.allFields) \cup {"count"}

\* The row has, in the column itself, a value that parses as a number
ColumnNumber(rec, field) == HasKey(rec, field) /\ ~ParseFloatIsNaN(Get(rec, field))

\* The rows of the loaded row set that qualify for a ranking on field
QualifyingRows(field) == {i \in 1..Len(records) : ColumnNumber(records[i], field)}

\* parseFloat of the row's value in the column itself
ColumnValue(i, field) == ParseFloat(Get(records[i], field))

\* C5: a Top-N response holds at most min(n, number of qualifying rows) rows,
\* all of them qualifying, non-increasing in the parsed value of the resolved
\* field when the order is desc and non-decreasing when it is asc.
C5_TopNBoundedAndOrdered ==
    pc = "done" /\ response.kind = "topN" =>
        /\ Len(response.rows) <=
               Min2(intents.topN.n, Cardinality(QualifyingRows(intents.topN.field)))
        /\ \A k \in 1..Len(response.rows) :
               response.rows[k] \in QualifyingRows(intents.topN.field)
        /\ \A k \in 1..(Len(response.rows) - 1) :
               IF intents.topN.order = "desc"
               THEN ColumnValue(response.rows[k], intents.topN.field)
                        >= ColumnValue(response.rows[k + 1], intents.topN.field)
               ELSE ColumnValue(response.rows[k], intents.topN.field)
                        <= ColumnValue(response.rows[k + 1], intents.topN.field)

\* C6: when the Top-N intent carries a category filter, every returned row
\* holds the filter's value in the filter's field, case and outer spaces aside.
C6_CategoryFilterApplied ==
    pc = "done" /\ response.kind = "topN"
        /\ intents.topN.categoryFilter # NoCategoryFilter =>
        \A k \in 1..Len(response.rows) :
            /\ HasKey(records[response.rows[k]], intents.topN.categoryFilter.field)
            /\ ToLowerCase(Trim(Get(records[response.rows[k]],
                                    intents.topN.categoryFilter.field)))
                   = ToLowerCase(intents.topN.categoryFilter.value)

\* The sort field in the stated priority: the field "by X" names when X
\* resolves, else the first word that resolves to a numeric field, else the
\* default rank field
PrioritySortField(q, sch) ==
    IF ByWord(q) # 0 /\ resolveField(q[ByWord(q)], sch) # NULL
    THEN resolveField(q[ByWord(q)], sch)
    ELSE Coalesce(FirstNumericWord(q, {}, sch), defaultRankField(sch))

\* C7: the sort field of a Top-N intent is the field of an explicit "by X"
\* when X resolves, otherwise the first word of the question that resolves to
\* a numeric field, otherwise the default rank field.
C7_SortFieldPriority ==
    intents.topN.isTopN => intents.topN.field = PrioritySortField(message, schema)

\* C8: two rows of a Top-N response with equal parsed value in the sort field
\* appear in the order they have in the loaded row set, for desc and for asc.
C8_TiesKeepRowOrder ==
    pc = "done" /\ response.kind = "topN" =>
        \A a, b \in 1..Len(response.rows) :
            /\ a < b
            /\ NumberAt(records[response.rows[a]], intents.topN.field, schema)
                   = NumberAt(records[response.rows[b]], intents.topN.field, schema)
            => response.rows[a] < response.rows[b]

\* An ascending ranking that returns two rows of equal value
C8_Witness ==
    /\ pc = "done"
    /\ response.kind = "topN"
    /\ intents.topN.order = "asc"
    /\ \E a, b \in 1..Len(response.rows) :
           /\ a < b
           /\ NumberAt(records[response.rows[a]], intents.topN.field, schema)
                  = NumberAt(records[response.rows[b]], intents.topN.field, schema)

\* The words X of the phrasings "per X", "by each X", "for each X" and of a
\* trailing "by X"
GroupPhraseWords(q) ==
    {i \in 2..Len(q) :
        \/ q[i - 1] = "per"
        \/ i >= 3 /\ q[i - 1] = "each" /\ q[i - 2] \in {"by", "for"}
        \/ i = Len(q) /\ q[i - 1] = "by"}

\* C9: the Group-By detector claims a question with "per X", "by each X",
\* "for each X" or a trailing "by X" whenever X is no time-unit word and
\* resolves to a categorical field, and the intent groups on that field.
C9_GroupByClaimsEachPhrasing ==
    "groupBy" \in ran =>
        \A i \in GroupPhraseWords(message) :
            /\ message[i] \notin TimeUnits
            /\ IsCategorical(schema, resolveField(message[i], schema))
            => /\ intents.groupBy.isGroupBy
               /\ intents.groupBy.groupField = resolveField(message[i], schema)

\* The rows with a non-empty group value and a parsable metric value, each in
\* the column itself
GroupQualifying(groupField, metricField) ==
    {i \in 1..Len(records) :
        /\ HasKey(records[i], groupField)
        /\ Trim(Get(records[i], groupField)) # ""
        /\ ColumnNumber(records[i], metricField)}

\* The metric of the rows, in row order
MetricValues(rows, metricField) == [k \in 1..Len(rows) |-> ColumnValue(rows[k], metricField)]

\* C10: in a Group-By response with aggregation sum, the per-group sums add
\* up to the sum of the metric over the qualifying rows, and every qualifying
\* row is counted in exactly one group.
C10_PartitionSum ==
    pc = "done" /\ response.kind = "groupBy" /\ intents.groupBy.aggType = "sum" =>
        /\ SumSeq([k \in 1..Len(response.results) |-> response.results[k].score])
               = SumSeq(MetricValues(
                     Ascending(GroupQualifying(intents.groupBy.groupField,
                                               intents.groupBy.metricField)),
                     intents.groupBy.metricField))
        /\ \A i \in GroupQualifying(intents.groupBy.groupField,
                                    intents.groupBy.metricField) :
               Cardinality({k \in 1..Len(response.results) :
                               i \in Range(response.results[k].rows)}) = 1

\* The rows whose value in the group column itself is g
RowsOfGroup(field, g) ==
    {i \in 1..Len(records) : HasKey(records[i], field) /\ Trim(Get(records[i], field)) = g}

\* The non-empty values of the group column
GroupNames(field) ==
    {Trim(Get(records[i], field)) : i \in {j \in 1..Len(records) : HasKey(records[j], field)}}
        \ {""}

\* The rows of group g with a parsable number in the metric column
RatedRows(field, g, metric) ==
    {i \in RowsOfGroup(field, g) : ColumnNumber(records[i], metric)}

\* The sum of the metric column over the rated rows of group g
RatedSum(field, g, metric) ==
    SumSeq(MetricValues(Ascending(RatedRows(field, g, metric)), metric))

\* mean(g) <= mean(h), for groups with rated rows, by cross-multiplication
MeanAtMost(field, g, h, metric) ==
    RatedSum(field, g, metric) * Cardinality(RatedRows(field, h, metric))
        <= RatedSum(field, h, metric) * Cardinality(RatedRows(field, g, metric))

\* C11: a "most popular" / "most common" Group-Rank answer names a group with
\* the maximum number of rows; a best (worst) answer names a group whose mean
\* of the default rank field is the highest (lowest) among the groups that
\* have a value of that field.
C11_GroupRankByCountOrMean ==
    pc = "done" /\ response.kind = "groupRank" /\ response.found =>
        IF intents.groupRank.metric = "count"
        THEN \A g \in GroupNames(intents.groupRank.groupField) :
                 Cardinality(RowsOfGroup(intents.groupRank.groupField, g))
                     <= Cardinality(RowsOfGroup(intents.groupRank.groupField,
                                                response.answer))
        ELSE /\ intents.groupRank.metric = defaultRankField(schema)
             /\ RatedRows(intents.groupRank.groupField, response.answer,
                          intents.groupRank.metric) # {}
             /\ \A g \in GroupNames(intents.groupRank.groupField) :
                    RatedRows(intents.groupRank.groupField, g,
                              intents.groupRank.metric) # {} =>
                        IF intents.groupRank.order = "desc"
                        THEN MeanAtMost(intents.groupRank.groupField, g,
                                        response.answer, intents.groupRank.metric)
                        ELSE MeanAtMost(intents.groupRank.groupField, response.answer,
                                        g, intents.groupRank.metric)

\* ------------------------------------------------------------------------
\* Requests over small tables of one value column
\* ------------------------------------------------------------------------

\* The most rows a small table has
MaxRows == 5

\* The values a cell of the value column takes: empty, a word, two numbers
Cells == {"", "x", "1", "9"}

\* A row as parseChunk gives it for "name: <letter>, rating: <cell>"
TableRow(i, cell) == <<(<<"name", CharAt(LowerAlphabet, i)>>), (<<"rating", cell>>)>>

TableOf(cells) == [i \in 1..Len(cells) |-> TableRow(i, cells[i])]

Tables ==
    {TableOf(cells) : cells \in UNION {[1..n -> Cells] : n \in 0..MaxRows}}
        \cup {TableOf(<<"1", "2", "3", "4", "100">>)}

TableQuestions == {<<"outliers">>}

InitTables == InitWith(TableQuestions, {<<>>}, Tables)

\* The steps of POST a question about outliers takes
NextTables ==
    \/ Validate
    \/ ContextualLookup
    \/ FollowUp
    \/ StructuralGate
    \/ DatasetInfo
    \/ SchemaQuery
    \/ ListAll
    \/ Detect
    \/ Outliers

TableSpec == InitTables /\ [][NextTables]_vars

\* ------------------------------------------------------------------------
\* Properties of outlier detection and of the schema, over small tables
\* ------------------------------------------------------------------------

\* sorted[k], k counted from 0, of the parsable values of the field sorted
\* ascending: the value that at most k values are below and more than k
\* values are at or below
SortedValueAt(field, k) ==
    CHOOSE v \in {ColumnValue(i, field) : i \in QualifyingRows(field)} :
        /\ Cardinality({i \in QualifyingRows(field) : ColumnValue(i, field) < v}) <= k
        /\ Cardinality({i \in QualifyingRows(field) : ColumnValue(i, field) <= v}) > k

\* val < Q1 - 1.5 * (Q3 - Q1) or val > Q3 + 1.5 * (Q3 - Q1), doubled
BeyondFences(val, q1, q3) ==
    2 * val < 2 * q1 - 3 * (q3 - q1) \/ 2 * val > 2 * q3 + 3 * (q3 - q1)

\* The rows flagged with Q1 = sorted[floor(n * 0.25)], Q3 = sorted[floor(n * 0.75)]
FlaggedRows(field) ==
    {i \in QualifyingRows(field) :
        BeyondFences(ColumnValue(i, field),
                     SortedValueAt(field, Cardinality(QualifyingRows(field)) \div 4),
                     SortedValueAt(field, (3 * Cardinality(QualifyingRows(field))) \div 4))}

\* C12: over n >= 4 numeric values the outlier answer flags exactly the rows
\* whose value is strictly below Q1 - 1.5 * IQR or strictly above
\* Q3 + 1.5 * IQR, with Q1 and Q3 the sorted values at floor(n * 0.25) and
\* floor(n * 0.75); four identical values flag nothing and 1, 2, 3, 4, 100
\* flags exactly 100.
C12_OutliersBeyondFences ==
    /\ (/\ pc = "done"
        /\ response.kind = "outliers"
        /\ Cardinality(QualifyingRows(defaultRankField(schema))) >= 4)
       => /\ response.enough
          /\ response.rows = Ascending(FlaggedRows(defaultRankField(schema)))
    /\ pc = "done" /\ store = TableOf(<<"9", "9", "9", "9">>) => response.rows = <<>>
    /\ pc = "done" /\ store = TableOf(<<"1", "2", "3", "4", "100">>) => response.rows = <<5>>

\* Among five values one lies beyond the upper fence and is the only row flagged
C12_Witness ==
    /\ pc = "done"
    /\ response.kind = "outliers"
    /\ store = TableOf(<<"1", "9", "1", "1", "1">>)
    /\ response.rows = <<2>>

\* C13: with fewer than 4 parsable numeric values in the target field the
\* outlier operation gives the insufficient-data answer: no quartile, no
\* fence, no outlier list and no chart.
C13_TooFewValues ==
    (/\ pc = "done"
     /\ response.kind = "outliers"
     /\ Cardinality(QualifyingRows(defaultRankField(schema))) < 4)
    => /\ ~response.enough
       /\ ~response.found
       /\ response.rows = <<>>
       /\ response.q1 = NULL
       /\ response.q3 = NULL
       /\ response.chart = NULL

\* ------------------------------------------------------------------------
\* Properties of the trend and filter executors
\* ------------------------------------------------------------------------

\* The rows with a parsable time value and a parsable metric value, each in
\* the column itself
TrendQualifying(timeField, metricField) ==
    {i \in 1..Len(records) :
        ColumnNumber(records[i], timeField) /\ ColumnNumber(records[i], metricField)}

\* The year bucket of a row: floor of its time value, as a label
YearOf(i, timeField) == ToString(ColumnValue(i, timeField))

\* C14: a trend by year has one bucket per distinct floor(time value) among
\* the rows with a parsable time value and a parsable metric value, and the
\* record count of each bucket is the number of such rows falling in it.
C14_YearBuckets ==
    pc = "done" /\ response.kind = "trend" /\ intents.trend.period = "year" =>
        /\ {response.points[k].period : k \in 1..Len(response.points)}
               = {YearOf(i, intents.trend.timeField) :
                      i \in TrendQualifying(intents.trend.timeField,
                                            intents.trend.metricField)}
        /\ \A k, l \in 1..Len(response.points) :
               response.points[k].period = response.points[l].period => k = l
        /\ \A k \in 1..Len(response.points) :
               response.points[k].count
                   = Cardinality({i \in TrendQualifying(intents.trend.timeField,
                                                        intents.trend.metricField) :
                                     YearOf(i, intents.trend.timeField)
                                         = response.points[k].period})

\* The rows whose own value in the field lies strictly beyond the threshold
MatchingRows(field, op, value) ==
    {i \in QualifyingRows(field) : Compares(ColumnValue(i, field), op, value)}

\* C15: the answer to a threshold filter (field, op, value) lists every row
\* whose parsed value in the field is strictly beyond the threshold in the
\* direction of op, omits none of them and lists no other row.
C15_FilterListsMatches ==
    pc = "done" /\ response.kind = "filter" =>
        {response.listed[k] : k \in 1..Len(response.listed)}
            = MatchingRows(intents.filter.field, intents.filter.op, intents.filter.value)

\* ------------------------------------------------------------------------
\* Properties of the schema
\* ------------------------------------------------------------------------

\* The rows with a non-empty value in the column
NonEmptyRows(field) ==
    {i \in 1..Len(records) :
        HasKey(records[i], field) /\ Trim(Get(records[i], field)) # ""}

\* Of these, the rows whose value parses as a finite number
FiniteRows(field) ==
    {i \in NonEmptyRows(field) : IsNumericValue(Get(records[i], field))}

\* C16: a field is classified numeric exactly when at least 60% of its
\* non-empty values parse as finite numbers; a field at exactly 60% (3 of 5)
\* is numeric.
C16_NumericAtSixtyPercent ==
    \A f \in Range(schema.allFields) :
        NonEmptyRows(f) # {} =>
            (IsNumeric(schema, f)
                <=> 5 * Cardinality(FiniteRows(f)) >= 3 * Cardinality(NonEmptyRows(f)))

\* The numbers the column holds: the values of the rows that parse
ColumnNumbers(field) == {ParseFloat(Get(records[i], field)) : i \in FiniteRows(field)}

\* C17: for every field classified numeric, the range is the minimum and the
\* maximum over exactly the values of the field that parse as finite numbers;
\* an empty or non-numeric value never contributes, in particular not as 0.
C17_RangeOverParsedValues ==
    \A f \in Range(schema.numericFields) :
        /\ f \in DOMAIN schema.ranges
        /\ schema.ranges[f].min = SetMin(ColumnNumbers(f))
        /\ schema.ranges[f].max = SetMax(ColumnNumbers(f))

\* A numeric column with an empty cell and a cell that is no number: the
\* range spans the three numbers only
C17_Witness ==
    /\ pc = "done"
    /\ store = TableOf(<<"9", "x", "1", "9", "">>)
    /\ "rating" \in DOMAIN schema.ranges
    /\ schema.ranges["rating"] = [min |-> 1, max |-> 9]

\* C18: every value of the alias table is a member of allFields, the aliases
\* added from the synonym groups included, and numericFields and
\* categoricalFields are subsets of allFields.
C18_AliasesNameFields ==
    /\ \A a \in DOMAIN schema.aliases : schema.aliases[a] \in Range(schema.allFields)
    /\ Range(schema.numericFields) \subseteq Range(schema.allFields)
    /\ Range(schema.categoricalFields) \subseteq Range(schema.allFields)

\* The schema of the films carries aliases from two synonym groups
C18_Witness ==
    /\ pc = "done"
    /\ store = Films
    /\ {"score", "yr"} \subseteq DOMAIN schema.aliases
    /\ schema.aliases["score"] = "rating"
    /\ schema.aliases["yr"] = "year"
    /\ schema.numericFields # <<>>
    /\ schema.categoricalFields # <<>>

\* ------------------------------------------------------------------------
\* The same request sent twice
\* ------------------------------------------------------------------------

\* The request is sent again, unchanged. Everything the previous run left
\* behind stays in place; only the control state starts afresh.
Again ==
    /\ pc = "done"
    /\ pc' = "validate"
    /\ ran' = {}
    /\ UNCHANGED <<stream, other, message, history, store, records, schema, intents, response>>

NextTwice == Next \/ Again

TwiceSpec == Init /\ [][NextTwice]_vars

\* The answers of the structural path: the dataset and schema shortcuts and
\* the executors
StructuralKinds == ExecutorKinds \cup {"datasetInfo", "schemaQuery"}

ColumnNames == {"cabin", "age", "id", "rating", "year", "score"}

ColumnOrders == {<<"cabin", "age", "id", "rating", "year", "score">>,
                 <<"score", "year", "rating", "id", "age", "cabin">>}

\* A row with the columns of cols, in the order of ord
RowWith(ord, cols) == [i \in 1..Len(FilterSeq(ord, cols)) |-> <<FilterSeq(ord, cols)[i], "1">>]

ColumnTables == {<<RowWith(ord, cols)>> : ord \in ColumnOrders, cols \in SUBSET ColumnNames}

Tokens == {"in", "id", "cab", "cabi", "cabins", "age", "page", "average", "idle",
           "rati", "ratings", "yearly", "ye", "bin"}

InitResolve ==
    /\ other = NoOther
    /\ stream = NoStream
    /\ pc = "resolve"
    /\ message \in {<<t>> : t \in Tokens}
    /\ history = <<>>
    /\ store \in ColumnTables
    /\ records = <<>>
    /\ schema = EmptySchema
    /\ ran = {}
    /\ intents = NoIntents
    /\ response = NoResponse

\* Neither alias lookup of resolveField answers for t
NoAlias(t, sch) == AliasOf(sch, t) = NULL /\ AliasOf(sch, ReplaceSep(t, "")) = NULL

\* resolveField(target, schema), with whether the answer is the fuzzy step's
Resolved(target, sch) ==
    [kind |-> "resolved",
     field |-> resolveField(target, sch),
     fuzzy |-> NoAlias(Trim(ToLowerCase(target)), sch)]

Resolve ==
    /\ pc = "resolve"
    /\ records' = store
    /\ schema' = buildSchema(store)
    /\ Respond(Resolved(message[1], buildSchema(store)))
    /\ UNCHANGED <<stream, other, message, history, store, ran, intents>>

NextResolve == Resolve

ResolveSpec == InitResolve /\ [][NextResolve]_vars

\* C20: the fuzzy step of resolveField matches a token to a field only when
\* the contained string (the token if the field contains it, the field name
\* if the token contains it) has at least 4 characters; so a token of fewer
\* than 4 characters is never resolved by the fuzzy step, and a field name of
\* fewer than 4 characters is never its result.
C20_FuzzyNeedsFourChars ==
    (pc = "done" /\ response.kind = "resolved" /\ response.fuzzy) =>
        /\ response.field # NULL =>
               /\ response.field \in Range(schema.allFields)
               /\ \/ Len(message[1]) >= 4 /\ Includes(response.field, message[1])
                  \/ Len(response.field) >= 4 /\ Includes(message[1], response.field)
               /\ Len(response.field) >= 4
        /\ Len(message[1]) < 4 => response.field = NULL

\* "in" is contained in the columns cabin and rating, reaches the fuzzy step
\* and is not resolved
C20_Witness ==
    /\ pc = "done"
    /\ response.kind = "resolved"
    /\ response.fuzzy
    /\ message = <<"in">>
    /\ {"cabin", "rating"} \subseteq Range(schema.allFields)
    /\ response.field = NULL

\* ------------------------------------------------------------------------
\* Properties of the empty table and of results without rows
\* ------------------------------------------------------------------------

\* The answers of the executors that compute over a numeric field
NumericKinds ==
    {"topN", "groupBy", "groupRank", "filteredAgg", "aggregate", "filter", "trend",
     "outliers"}

\* C21: with no rows the schema has empty field sets, every detector that
\* needs a numeric field declines, and a structural-looking question that
\* needs a numeric field goes to the retrieval fallback: no structural
\* executor answers it.
C21_EmptyTableFallsThrough ==
    pc = "done" /\ store = <<>> =>
        /\ schema = EmptySchema
        /\ ~intents.topN.isTopN
        /\ ~intents.agg.isAggregate
        /\ response.kind \notin NumericKinds

\* The row holds the filter's value in the filter's column
InCategory(rec, cf) ==
    HasKey(rec, cf.field) /\ ToLowerCase(Trim(Get(rec, cf.field))) = ToLowerCase(cf.value)

\* The rows a Top-N intent selects: a number in the sort column and, with a
\* category filter, the filter's value in its column
SelectedRows(topN) ==
    {i \in QualifyingRows(topN.field) :
        topN.categoryFilter = NoCategoryFilter \/ InCategory(records[i], topN.categoryFilter)}

\* C22: when a structural operation executes and no row qualifies, the answer
\* is the negative-result sentence: not an empty answer or list, and not a
\* result computed over other rows than the intent selected.
C22_NoRowsNegativeAnswer ==
    /\ (pc = "done" /\ response.kind = "topN" /\ SelectedRows(intents.topN) = {})
           => ~response.found /\ response.rows = <<>>
    /\ (/\ pc = "done"
        /\ response.kind = "filter"
        /\ MatchingRows(intents.filter.field, intents.filter.op, intents.filter.value) = {})
           => ~response.found /\ response.rows = <<>>

\* ------------------------------------------------------------------------
\* Requests whose collaborators may fail
\* ------------------------------------------------------------------------

Collaborators == {"rowStore", "embedding", "generation"}

\* { error: 'Chat processing failed' }, status 500
Failure == [kind |-> "failure", found |-> FALSE, rows |-> <<>>, chart |-> NULL]

\* A collaborator that fails on every call and is called again
FailsAndRetries(who) ==
    /\ ran' = ran \cup {who}
    /\ UNCHANGED <<stream, other, pc, message, history, store, records, schema, intents, response>>

\* The call of collaborator who throws: the catch clause answers
Fails(who) ==
    /\ ran' = ran \cup {who}
    /\ Respond(Failure)
    /\ UNCHANGED <<stream, other, message, history, store, records, schema, intents>>

\* getAllChunks of the contextual lookup or of the gate, or the similarity
\* search of the retrieval path, fails
RowStoreFails ==
    /\ \/ pc = "contextual" /\ HasKw(message, ContextBackRef) /\ history # <<>>
       \/ pc = "gate" /\ isStructuralQuery(message)
       \/ pc = "rag"
    /\ Fails("rowStore")

\* createQueryEmbedding fails
EmbeddingFails == pc = "rag" /\ Fails("embedding")

\* The completion of the follow-up path or of the retrieval path fails
GenerationFails ==
    /\ \/ pc = "followUp" /\ isFollowUp(message, Len(history))
       \/ pc = "rag"
    /\ Fails("generation")

NextFailing == Next \/ RowStoreFails \/ EmbeddingFails \/ GenerationFails

FailingSpec == Init /\ [][NextFailing]_vars

\* C23: when the row store, the embedding or the generation collaborator
\* fails, the request ends with exactly one generic failure result: the call
\* is not made again, nothing follows the result, and no structural answer
\* is returned.
C23_FailureEndsRequest ==
    [][/\ pc # "done"
       /\ ran' \cap Collaborators # {} =>
              /\ pc' = "done"
              /\ response' = Failure
              /\ response = NoResponse]_vars

\* The row store failed at the gate of a structural question about the films
C23_Witness ==
    /\ pc = "done"
    /\ "rowStore" \in ran
    /\ isStructuralQuery(message)
    /\ store = Films
    /\ response = Failure

\* ------------------------------------------------------------------------
\* Two requests handled concurrently
\* ------------------------------------------------------------------------

\* The locals of the running request
Snapshot ==
    [pc |-> pc, message |-> message, history |-> history, store |-> store,
     records |-> records, schema |-> schema, ran |-> ran, intents |-> intents,
     response |-> response]

\* A request that has just arrived
FreshRequest(q, h, s) ==
    [pc |-> "validate", message |-> q, history |-> h, store |-> s, records |-> <<>>,
     schema |-> EmptySchema, ran |-> {}, intents |-> NoIntents, response |-> NoResponse]

\* The handler resumes the request r
Resume(r) ==
    /\ pc' = r.pc
    /\ message' = r.message
    /\ history' = r.history
    /\ store' = r.store
    /\ records' = r.records
    /\ schema' = r.schema
    /\ ran' = r.ran
    /\ intents' = r.intents
    /\ response' = r.response

\* A handler whose rows and schema are kept outside the request: the request
\* resumed finds the rows and the schema of the request that ran last
SwitchSharingRows ==
    /\ other.pc # "none"
    /\ other' = Snapshot
    /\ UNCHANGED stream
    /\ Resume([other EXCEPT !.records = records, !.schema = schema])

\* The running request is suspended and the waiting one resumed; rows, schema
\* and intents are locals of POST and travel with their request
Switch ==
    /\ other.pc # "none"
    /\ other' = Snapshot
    /\ UNCHANGED stream
    /\ Resume(other)

\* One question for each path of the handler
PairQuestions ==
    {<<"top", "3">>, <<"list", "all", "genre">>, <<"total", "by", "genre">>,
     <<"best", "genre">>, <<"rating", "over", "7">>, <<"average", "in", "crime">>,
     <<"best", "outliers">>, <<"over", "time">>, <<"show", "outliers">>,
     <<"show", "columns">>, <<"show", "this", "rating">>, <<"why", "year">>,
     <<"total", "comedy">>, <<"how", "many", "city">>,
     <<"how", "many", "have", "rating">>, <<"tell", "me", "about", "this", "dataset">>}

\* The requests that arrive second
SecondRequests ==
    {FreshRequest(<<"top", "3">>, <<>>, Films),
     FreshRequest(<<"most", "common", "city">>, <<>>, People),
     FreshRequest(<<"show", "this", "rating">>, PriorTurn, Films),
     FreshRequest(<<"total", "comedy">>, <<>>, People)}

InitPair ==
    /\ pc = "validate"
    /\ message \in PairQuestions \cap Questions
    /\ history \in Histories
    /\ store \in {Films, People}
    /\ records = <<>>
    /\ schema = EmptySchema
    /\ ran = {}
    /\ intents = NoIntents
    /\ response = NoResponse
    /\ other \in SecondRequests
    /\ stream = NoStream

NextPair == Next \/ Switch

PairSpec == InitPair /\ [][NextPair]_vars

\* The two requests ask the same question, with the same history, of the
\* same rows
SameRequest ==
    other.pc # "none" /\ message = other.message /\ history = other.history
        /\ store = other.store

\* C24: of two requests handled concurrently, in any interleaving of their
\* steps, each builds its own schema from its own rows and runs as it would
\* alone: a step of one request leaves the rows, the schema and every other
\* local of the waiting request as they are, a switch hands each request back
\* what it had, and once loaded the rows and the schema of a request do not
\* change, the Top-N sort included; two equal requests get equal results.
C24_RequestsDoNotInterfere ==
    /\ [](SameRequest /\ pc = "done" /\ other.pc = "done"
             => response = other.response /\ schema = other.schema)
    /\ [][/\ \/ other' = other
             \/ other' = Snapshot /\ Snapshot' = other
          /\ other' = other /\ pc # "gate" => records' = records /\ schema' = schema
          /\ other' = other => store' = store]_vars

\* A Top-N request on the films and a request on the people have both been
\* answered, each from its own rows and schema
C24_Witness ==
    /\ pc = "done"
    /\ other.pc = "done"
    /\ store = Films
    /\ other.store = People
    /\ response.kind = "topN"
    /\ response.found
    /\ schema = buildSchema(Films)
    /\ other.response.kind = "groupRank"
    /\ other.schema = buildSchema(People)

\* ------------------------------------------------------------------------
\* Properties of the charts, of field resolution and of the paths before the
\* gate
\* ------------------------------------------------------------------------

\* The chart type stated for each operation
StatedChart(r) ==
    IF r.kind = "trend" THEN "line"
    ELSE IF r.kind = "groupBy" /\ Len(r.results) <= 8 THEN "pie"
    ELSE "bar"

\* C25: the operation determines the chart type: bar for ranking and outlier
\* results, pie for a group-by breakdown of at most 8 groups and bar for a
\* larger one, line for a trend.
C25_ChartByOperation ==
    (/\ pc = "done"
     /\ response.kind \in {"topN", "groupRank", "outliers", "groupBy", "trend"}
     /\ response.found)
    => response.chart = StatedChart(response)

\* C26: in every schema buildSchema builds, each field of allFields resolves
\* to itself: no alias added for a synonym group or for another field
\* redirects an exact column name to a different column.
C26_ColumnResolvesToItself ==
    \A f \in Range(schema.allFields) : resolveField(f, schema) = f

\* C27: for every row and every column of the schema the value is read from
\* that column only: findField returns the column when the row has a value
\* in it and no column otherwise, so a Top-N ranking on a column never holds
\* a row whose value comes from a column with a similar name.
C27_ValueFromItsColumnOnly ==
    /\ \A i \in 1..Len(records) : \A f \in Range(schema.allFields) :
           findField(records[i], f, schema) = IF Truthy(records[i], f) THEN f ELSE NULL
    /\ (/\ pc = "done"
        /\ response.kind = "topN"
        /\ intents.topN.field \in Range(schema.allFields))
           => \A k \in 1..Len(response.rows) :
                  Truthy(records[response.rows[k]], intents.topN.field)

\* ------------------------------------------------------------------------
\* Back-references to an answer that names a category
\* ------------------------------------------------------------------------

\* A conversation whose last answer names a genre, as a group-by answer does
CategoryTurn ==
    <<[role |-> "user", content |-> "total rating by genre"],
      [role |-> "assistant", content |-> "Crime: 16"]>>

InitContext == InitWith(Questions, {<<>>, CategoryTurn}, Datasets)

ContextSpec == InitContext /\ [][Next]_vars

\* C28: whenever the contextual field lookup answers, the rank it reports
\* lies between 1 and the number of records with a numeric metric value,
\* also when the named entity matches several rows.
C28_RankWithinRecords ==
    pc = "done" /\ response.kind = "contextual" =>
        /\ 1 <= response.rank
        /\ response.rank <= response.of

\* A short question the structural gate does not match
ShortAndVague ==
    /\ message # <<>>
    /\ Len(Text(message)) < 60
    /\ ~isStructuralQuery(message)

\* C29, as the specification states it: with a non-empty history every
\* question shorter than 60 characters that the structural gate does not
\* match is answered by the follow-up path and never reaches retrieval; with
\* an empty history it goes to retrieval unless it is an explicit follow-up
\* phrase.
C29_ShortQuestionsFollowUp ==
    /\ pc = "rag" /\ ShortAndVague => history = <<>>
    /\ pc = "done" /\ ShortAndVague =>
           response.kind = IF history # <<>> \/ isFollowUp(message, 0)
                           THEN "followUp" ELSE "rag"

\* C29, amended: with a non-empty history such a question is answered by the
\* contextual field lookup when that finds an entity and a metric, and by the
\* follow-up path otherwise; in neither case does it reach retrieval. With an
\* empty history it goes to retrieval unless it is an explicit follow-up
\* phrase.
C29_ShortQuestionsSkipRetrieval ==
    /\ pc = "rag" /\ ShortAndVague => history = <<>>
    /\ pc = "done" /\ ShortAndVague =>
           response.kind =
               IF ContextualAnswer(message, history, store) # NoResponse THEN "contextual"
               ELSE IF history # <<>> \/ isFollowUp(message, 0) THEN "followUp"
               ELSE "rag"

\* A question that is no follow-up phrase is answered by the follow-up path
\* because a conversation precedes it
C29_Witness ==
    /\ pc = "done"
    /\ ShortAndVague
    /\ history # <<>>
    /\ ~isFollowUp(message, 0)
    /\ response.kind = "followUp"

\* ------------------------------------------------------------------------
\* The streamed response: sseStream and the start callback of its stream
\* ------------------------------------------------------------------------

\* The most text deltas the model sends in one answer
MaxChunks == 3

\* The text deltas of the model; an empty delta is not emitted
Deltas == {"", "a", "b"}

\* What run resolves to: sources alone, or context and chart data as well
Metas ==
    {[chartData |-> NULL, context |-> NULL, sources |-> <<>>],
     [chartData |-> "bar", context |-> "5 rows", sources |-> <<>>]}

NoMeta == [chartData |-> NULL, context |-> NULL, sources |-> NULL]

\* What run throws: an Error with a message, or a value that is no Error
Thrown ==
    {[isError |-> TRUE, message |-> "Connection error."],
     [isError |-> FALSE, message |-> NULL]}

\* What controller.enqueue and controller.close throw once the stream is no
\* longer readable
InvalidState == [isError |-> TRUE, message |-> "Invalid state: Controller is already closed"]

\* Nothing has been thrown
NoError == [isError |-> FALSE, message |-> NULL]

\* err instanceof Error ? err.message : 'Unknown error'
MessageOf(err) == IF err.isError THEN err.message ELSE "Unknown error"

\* data: {chunk}, data: {done: true, ...meta} and data: {error: msg}
ChunkEvent(c) == [type |-> "chunk", chunk |-> c, meta |-> NoMeta, error |-> NULL]

DoneEvent(meta) == [type |-> "done", chunk |-> NULL, meta |-> meta, error |-> NULL]

ErrorEvent(msg) == [type |-> "error", chunk |-> NULL, meta |-> NoMeta, error |-> msg]

\* The stream sseStream returns, as start begins to run
NewStream ==
    [at |-> "run", state |-> "readable", events |-> <<>>, deltas |-> 0,
     outcome |-> NULL, meta |-> NoMeta, err |-> NoError, throwing |-> FALSE]

InitStream ==
    /\ pc = "done"
    /\ message = <<"why">>
    /\ history = <<>>
    /\ store = Films
    /\ records = <<>>
    /\ schema = EmptySchema
    /\ ran = {}
    /\ intents = NoIntents
    /\ response = [kind |-> "stream"]
    /\ other = NoOther
    /\ stream = NewStream

StreamStep(next) ==
    /\ stream' = next
    /\ UNCHANGED <<pc, message, history, store, records, schema, ran, intents, response,
                   other>>

\* controller.enqueue of an event: it throws unless the stream is readable
Enqueued(event, then, else) ==
    IF stream.state = "readable"
    THEN [then EXCEPT !.events = Append(stream.events, event)]
    ELSE else

\* start has caught err
Caught(err, outcome) == [stream EXCEPT !.at = "catch", !.err = err, !.outcome = outcome]

\* for await (const chunk of stream) { if (delta) emit(delta) }
Emit ==
    /\ stream.at = "run"
    /\ stream.deltas < MaxChunks
    /\ \E delta \in Deltas :
           StreamStep(IF delta = "" THEN [stream EXCEPT !.deltas = @ + 1]
                      ELSE Enqueued(ChunkEvent(delta), [stream EXCEPT !.deltas = @ + 1],
                                    Caught(InvalidState, "threw")))

\* run resolves to the metadata
RunReturns ==
    /\ stream.at = "run"
    /\ \E meta \in Metas :
           StreamStep([stream EXCEPT !.at = "done", !.meta = meta, !.outcome = "completed"])

\* run rejects: the completion request or the iteration of its stream fails
RunThrows ==
    /\ stream.at = "run"
    /\ \E err \in Thrown : StreamStep(Caught(err, "threw"))

\* controller.enqueue of the done event, the last statement of the try block
EnqueueDone ==
    /\ stream.at = "done"
    /\ StreamStep(Enqueued(DoneEvent(stream.meta), [stream EXCEPT !.at = "finally"],
                           Caught(InvalidState, stream.outcome)))

\* The catch block: controller.enqueue of the error event; when that throws
\* the exception leaves the catch block through the finally block
EnqueueError ==
    /\ stream.at = "catch"
    /\ StreamStep(Enqueued(ErrorEvent(MessageOf(stream.err)),
                           [stream EXCEPT !.at = "finally"],
                           [stream EXCEPT !.at = "finally", !.throwing = TRUE]))

\* A start that closes the controller at the end of the try block only
CloseInTry ==
    /\ stream.at = "finally"
    /\ StreamStep(IF stream.state = "readable" /\ stream.outcome = "completed"
                  THEN [stream EXCEPT !.at = "returned", !.state = "closed"]
                  ELSE [stream EXCEPT !.at = IF stream.state = "readable"
                                             THEN "returned" ELSE "threw"])

\* The finally block: controller.close, which throws unless the stream is
\* readable
Close ==
    /\ stream.at = "finally"
    /\ StreamStep(IF stream.state = "readable"
                  THEN [stream EXCEPT !.at = IF stream.throwing THEN "threw" ELSE "returned",
                                      !.state = "closed"]
                  ELSE [stream EXCEPT !.at = "threw"])

\* The client stops reading: the consumer cancels the stream while start runs
Cancel ==
    /\ stream.at \in {"run", "done", "catch", "finally"}
    /\ stream.state = "readable"
    /\ StreamStep([stream EXCEPT !.state = "cancelled"])

NextStream ==
    \/ Emit
    \/ RunReturns
    \/ RunThrows
    \/ EnqueueDone
    \/ EnqueueError
    \/ Close
    \/ Cancel

StreamSpec == InitStream /\ [][NextStream]_vars

\* start has returned or thrown
StartEnded == stream.at \in {"returned", "threw"}

\* Only the last event may be a done or an error event
ChunksThenTerminal ==
    \A i \in 1..(Len(stream.events) - 1) : stream.events[i].type = "chunk"

\* The last event is the terminal event of the outcome of run
EndsWithTerminal ==
    /\ stream.events # <<>>
    /\ stream.events[Len(stream.events)] =
           IF stream.outcome = "completed" THEN DoneEvent(stream.meta)
           ELSE ErrorEvent(MessageOf(stream.err))

\* C30, as the specification states it: every stream of sseStream emits
\* chunk events followed by exactly one terminal event, a done event with
\* the metadata when run completes and an error event when run throws; no
\* chunk follows the terminal event, done and error are never both emitted,
\* and the stream is closed afterwards.
C30_OneTerminalThenClosed ==
    /\ ChunksThenTerminal
    /\ StartEnded => EndsWithTerminal /\ stream.state # "readable"

\* C30, amended: the same for every stream the client has not cancelled; on
\* a cancelled stream no event follows the cancellation, so it may end
\* without a terminal event, and it never holds more than one.
C30_OneTerminalUnlessCancelled ==
    /\ ChunksThenTerminal
    /\ StartEnded => stream.state # "readable"
    /\ StartEnded /\ stream.state = "closed" =>
           EndsWithTerminal /\ stream.at = "returned"
    /\ StartEnded /\ stream.state = "cancelled" => stream.at = "threw"

\* run emitted chunks and then threw: the stream ends with the error event
\* and is closed
C30_Witness ==
    /\ stream.at = "returned"
    /\ stream.outcome = "threw"
    /\ stream.state = "closed"
    /\ Len(stream.events) >= 2
    /\ stream.events[Len(stream.events)].type = "error"

====
